---------------------------- MODULE Spec2Model ----------------------------
(***************************************************************************)
(* Claudemeter: the usage data ingestion and aggregation engine.           *)
(*                                                                         *)
(*   apiSchema.js        getNestedValue, extractFromSchema,                *)
(*                       processOverageData, processPrepaidData            *)
(*   claudeDataLoader.js ClaudeDataLoader (root resolution, JSONL parsing, *)
(*                       loadUsageRecords, getCurrentSessionUsage)         *)
(*   sessionTracker.js   SessionTracker (startSession, updateTokens)       *)
(*                                                                         *)
(* The specifications share the variables below:                           *)
(*   SpecSchema   a remote response is extracted / processed               *)
(*   SpecRoots    the candidate roots are built and resolved               *)
(*   SpecLoad     one pass of loadUsageRecords                             *)
(*   SpecValidate one pass of loadUsageRecords over arbitrary lines        *)
(*   SpecIdentity one pass of loadUsageRecords over records differing in   *)
(*                their ids                                                *)
(*   SpecSession  one pass of getCurrentSessionUsage                       *)
(*   SpecScan     the same, over files that all qualify                    *)
(*   SpecFilter   the same, over file names of every shape                 *)
(*   SpecTracker  calls of one SessionTracker, one after the other         *)
(*   SpecRace     startSession calls that overlap, on one or two trackers  *)
(***************************************************************************)
EXTENDS Integers, Sequences, FiniteSets, TLC

VARIABLES
    \* ---- apiSchema.js
    endpoint,       \* which endpoint the intercepted response came from
    response,       \* the raw response body (a JSON value)
    schemaPc,       \* "pending" | "done"
    extracted,      \* result of extractFromSchema (or Idle)
    processed,      \* result of processOverageData / processPrepaidData (or Idle)
    \* ---- ClaudeDataLoader: construction and root resolution
    fsKind,         \* the file system: what fs.stat answers for the paths that exist
    envPath,        \* process.env.CLAUDE_CONFIG_DIR: undefined, or a string of characters
    claudeConfigPaths, \* this.claudeConfigPaths
    rootPc,         \* "new" | "constructed" | "finding" | "found" | "notfound" | "idle"
    findIdx,        \* loop position of findClaudeDataDirectory
    dataDir,        \* the directory returned by findClaudeDataDirectory (or None)
    statLog,        \* the candidates findClaudeDataDirectory has tried, in order
    workspacePath,  \* this.workspacePath: null, or a string of characters
    projectDirName, \* this.projectDirName
    \* ---- ClaudeDataLoader.loadUsageRecords
    sinceTimestamp, \* the argument: null, or epoch milliseconds
    loadPc,         \* "start" | "resolving" | "parsing" | "done" | "idle"
    fileRecords,    \* what parseJsonlFile returned for each file, in order
    linesRead,      \* number of lines read so far, over all files
    lastContent,    \* what fs.readFile answered for the file parsed last
    allRecords,     \* allRecords
    report,         \* the report returned (or None)
    \* ---- ClaudeDataLoader.getCurrentSessionUsage
    now,            \* what Date.now() answers when the call starts
    sessPc,         \* "start" | "resolving" | "enumerate" | "stat" | "read" | "done" | "idle"
    sessionStart,   \* sessionStart
    sessDataDir,    \* the local dataDir of getCurrentSessionUsage
    allJsonlFiles,  \* allJsonlFiles
    mainSessionFiles, \* mainSessionFiles
    recentFiles,    \* recentFiles
    fileIdx,        \* position of the running for-of loop
    tally,          \* highestSessionTokens, highestCacheCreation, highestCacheRead,
                    \* totalMessageCount, activeSessionCount
    fsLog,          \* the fs calls getCurrentSessionUsage has made below the root, in order
    contentsRead,   \* what fs.readFile answered, one entry per file of recentFiles read
    sessReport,     \* the report returned (or None)
    \* ---- SessionTracker
    tokenLimitSetting, \* the tokenLimit setting of the workspace: undefined, or a number
    sessionFile,    \* the session file: None when it cannot be read, else its parsed content
    currentSession, \* this.currentSession of each tracker
    calls           \* the calls of startSession / updateTokens, each with its position,
                    \* its arguments and its local data

schemaVars == <<endpoint, response, schemaPc, extracted, processed>>
rootVars == <<fsKind, envPath, claudeConfigPaths, rootPc, findIdx, dataDir, statLog,
              workspacePath, projectDirName>>
loadVars == <<sinceTimestamp, loadPc, fileRecords, linesRead, lastContent,
              allRecords, report>>
sessVars == <<now, sessPc, sessionStart, sessDataDir, allJsonlFiles, mainSessionFiles,
              recentFiles, fileIdx, tally, fsLog, contentsRead, sessReport>>
trackVars == <<tokenLimitSetting, sessionFile, currentSession, calls>>
vars == <<schemaVars, rootVars, loadVars, sessVars, trackVars>>

\* A variable of a component that the running specification does not use.
Idle == [t |-> "idle"]
None == [t |-> "none"]

(***************************************************************************)
(* JavaScript values.  A JSON value is tagged with its typeof; a number is *)
(* a rational n/d in lowest terms (credits are divided by 100); an object  *)
(* is a function from its own property names to values.                    *)
(***************************************************************************)
Undefined == [t |-> "undefined"]
JNull == [t |-> "null"]
Bool(b) == [t |-> "boolean", b |-> b]
Str(s) == [t |-> "string", s |-> s]
Obj(o) == [t |-> "object", o |-> o]
EmptyObj == Obj(<<>>)
\* The value a throwing expression yields (a TypeError propagating to the caller).
TypeError == [t |-> "TypeError"]

RECURSIVE Gcd(_, _)
Gcd(a, b) == IF b = 0 THEN a ELSE Gcd(b, a % b)

Abs(n) == IF n < 0 THEN -n ELSE n

\* The number n/d (d > 0), in lowest terms.
Rat(n, d) ==
    LET g == Gcd(Abs(n), d)
    IN  [t |-> "number", n |-> n \div g, d |-> d \div g]

Num(n) == Rat(n, 1)

IsNullish(v) == v.t \in {"undefined", "null"}

\* JavaScript truthiness (ToBoolean).
Truthy(v) ==
    CASE v.t = "undefined" -> FALSE
      [] v.t = "null" -> FALSE
      [] v.t = "boolean" -> v.b
      [] v.t = "number" -> v.n # 0
      [] v.t = "string" -> Len(v.s) # 0
      [] OTHER -> TRUE

\* v[k] for a property name k that no primitive wrapper defines.
GetProp(v, k) ==
    IF IsNullish(v) \/ v = TypeError THEN TypeError
    ELSE IF v.t = "object" /\ k \in DOMAIN v.o THEN v.o[k]
    ELSE Undefined

\* a ?? b
Coalesce(a, b) == IF IsNullish(a) THEN b ELSE a

\* a / b, a * b and a > b on numbers (exact arithmetic; b # 0 in a / b).
NumDiv(a, b) == IF b.n < 0 THEN Rat(-(a.n * b.d), -(a.d * b.n)) ELSE Rat(a.n * b.d, a.d * b.n)
NumMul(a, b) == Rat(a.n * b.n, a.d * b.d)
NumAdd(a, b) == Rat(a.n * b.d + b.n * a.d, a.d * b.d)
NumGt(a, b) == a.n * b.d > b.n * a.d

\* Integer floor of p/q for q > 0.
FloorDiv(p, q) == IF p >= 0 THEN p \div q ELSE -((-p + q - 1) \div q)

\* Math.round: the nearest integer, a tie going up.
MathRound(a) == Num(FloorDiv(2 * a.n + a.d, 2 * a.d))

(***************************************************************************)
(* Strings that the code takes apart are sequences of symbols.             *)
(***************************************************************************)
\* Index of the first occurrence of sep in s, or 0.
RECURSIVE IndexOf(_, _, _)
IndexOf(s, sep, from) ==
    IF from > Len(s) THEN 0
    ELSE IF s[from] = sep THEN from
    ELSE IndexOf(s, sep, from + 1)

\* String.prototype.split(sep) for a one-symbol separator.
RECURSIVE Split(_, _)
Split(s, sep) ==
    LET i == IndexOf(s, sep, 1)
    IN  IF i = 0 THEN <<s>>
        ELSE <<SubSeq(s, 1, i - 1)>> \o Split(SubSeq(s, i + 1, Len(s)), sep)

\* The text a sequence of symbols spells.
RECURSIVE Text(_)
Text(s) == IF s = <<>> THEN "" ELSE Head(s) \o Text(Tail(s))

(***************************************************************************)
(* apiSchema.js: the declarative field tables.  A path is the sequence of  *)
(* its symbols, "." being the separator the code splits on.                *)
(***************************************************************************)
Field(path, type, default) == [path |-> path, type |-> type, default |-> default]

USAGE_API_SCHEMA ==
    [ fiveHour |->
        [ utilization |-> Field(<<"five_hour", ".", "utilization">>, "percent", Num(0)),
          resetsAt |-> Field(<<"five_hour", ".", "resets_at">>, "time", JNull) ],
      sevenDay |->
        [ utilization |-> Field(<<"seven_day", ".", "utilization">>, "percent", Num(0)),
          resetsAt |-> Field(<<"seven_day", ".", "resets_at">>, "time", JNull) ],
      sevenDaySonnet |->
        [ utilization |-> Field(<<"seven_day_sonnet", ".", "utilization">>, "percent", JNull),
          resetsAt |-> Field(<<"seven_day_sonnet", ".", "resets_at">>, "time", JNull) ],
      sevenDayOpus |->
        [ utilization |-> Field(<<"seven_day_opus", ".", "utilization">>, "percent", JNull),
          resetsAt |-> Field(<<"seven_day_opus", ".", "resets_at">>, "time", JNull) ],
      extraUsage |->
        [ value |-> Field(<<"extra_usage">>, "raw", JNull) ] ]

OVERAGE_API_SCHEMA ==
    [ isEnabled |-> Field(<<"is_enabled">>, "boolean", Bool(FALSE)),
      monthlyLimit |-> Field(<<"monthly_credit_limit">>, "cents", Num(0)),
      usedCredits |-> Field(<<"used_credits">>, "cents", Num(0)),
      currency |-> Field(<<"currency">>, "string", Str("USD")),
      outOfCredits |-> Field(<<"out_of_credits">>, "boolean", Bool(FALSE)) ]

\* The loop of getNestedValue over the remaining parts, then `current ?? defaultValue`.
\* Mutant: the loop without its null/undefined guard.
RECURSIVE WalkUnguarded(_, _, _)
WalkUnguarded(current, parts, defaultValue) ==
    IF current = TypeError THEN TypeError
    ELSE IF parts = <<>> THEN Coalesce(current, defaultValue)
    ELSE WalkUnguarded(GetProp(current, Text(Head(parts))), Tail(parts), defaultValue)

RECURSIVE WalkParts(_, _, _)
WalkParts(current, parts, defaultValue) ==
    IF parts = <<>> THEN Coalesce(current, defaultValue)
    ELSE IF IsNullish(current) THEN defaultValue
    ELSE WalkParts(GetProp(current, Text(Head(parts))), Tail(parts), defaultValue)

getNestedValue(obj, path, defaultValue) ==
    IF ~Truthy(obj) \/ path = <<>> THEN defaultValue
    ELSE WalkParts(obj, Split(path, "."), defaultValue)

\* `typeof fields === 'object' && fields.path`
IsFieldDescriptor(fields) == "path" \in DOMAIN fields /\ fields.path # <<>>

extractFromSchema(resp, schema) ==
    LET result ==
            [ groupName \in DOMAIN schema |->
                IF IsFieldDescriptor(schema[groupName])
                THEN getNestedValue(resp, schema[groupName].path, schema[groupName].default)
                ELSE Obj([ fieldName \in DOMAIN schema[groupName] |->
                            getNestedValue(resp, schema[groupName][fieldName].path,
                                           schema[groupName][fieldName].default) ]) ]
        raised ==
            \E groupName \in DOMAIN schema :
                \/ result[groupName] = TypeError
                \/ /\ ~IsFieldDescriptor(schema[groupName])
                   /\ \E fieldName \in DOMAIN schema[groupName] :
                          result[groupName].o[fieldName] = TypeError
    IN  IF raised THEN TypeError ELSE Obj(result)

\* Mutant: the percentage truncated instead of rounded.
OveragePercentTruncated(usedDollars, limitDollars) ==
    IF NumGt(limitDollars, Num(0))
    THEN LET x == NumMul(NumDiv(usedDollars, limitDollars), Num(100))
         IN  Num(FloorDiv(x.n, x.d))
    ELSE Num(0)

\* limitDollars > 0 ? Math.round((usedDollars / limitDollars) * 100) : 0
OveragePercent(usedDollars, limitDollars) ==
    IF NumGt(limitDollars, Num(0))
    THEN MathRound(NumMul(NumDiv(usedDollars, limitDollars), Num(100)))
    ELSE Num(0)

processOverageData(overageData) ==
    IF ~Truthy(overageData) THEN JNull
    ELSE LET ex == extractFromSchema(overageData, OVERAGE_API_SCHEMA)
         IN  IF ex = TypeError THEN TypeError
             ELSE IF ~Truthy(ex.o.isEnabled) THEN JNull
             ELSE LET usedDollars == NumDiv(ex.o.usedCredits, Num(100))
                      limitDollars == NumDiv(ex.o.monthlyLimit, Num(100))
                  IN  Obj([ limit |-> limitDollars,
                            used |-> usedDollars,
                            currency |-> ex.o.currency,
                            percent |-> OveragePercent(usedDollars, limitDollars),
                            outOfCredits |-> ex.o.outOfCredits ])

\* Mutant: the alternatives tried with `||`, so that a present 0 falls through.
PrepaidBalanceCentsFalsy(creditsData) ==
    LET a == GetProp(creditsData, "remaining_credits")
        b == GetProp(creditsData, "balance")
        c == GetProp(creditsData, "credit_balance")
        d == GetProp(creditsData, "available_credits")
    IN  IF Truthy(a) THEN a ELSE IF Truthy(b) THEN b ELSE IF Truthy(c) THEN c
        ELSE IF Truthy(d) THEN d ELSE Num(0)

\* remaining_credits ?? balance ?? credit_balance ?? available_credits ?? 0
PrepaidBalanceCents(creditsData) ==
    Coalesce(GetProp(creditsData, "remaining_credits"),
    Coalesce(GetProp(creditsData, "balance"),
    Coalesce(GetProp(creditsData, "credit_balance"),
    Coalesce(GetProp(creditsData, "available_credits"), Num(0)))))

processPrepaidData(creditsData) ==
    IF ~Truthy(creditsData) THEN JNull
    ELSE LET balanceCents == PrepaidBalanceCents(creditsData)
         IN  IF balanceCents = Num(0) THEN JNull
             ELSE Obj([ balance |-> NumDiv(balanceCents, Num(100)),
                        currency |-> Coalesce(GetProp(creditsData, "currency"), Str("USD")) ])

(***************************************************************************)
(* SpecSchema: one intercepted response is handed to the function of its   *)
(* endpoint.                                                               *)
(***************************************************************************)
\* The object whose own properties are the keys of f that are not Undefined.
MkObj(f) == Obj([k \in {x \in DOMAIN f : f[x] # Undefined} |-> f[k]])

UsageGroupValues ==
    {Undefined, JNull, Num(0), Str("")}
    \cup { MkObj([utilization |-> u, resets_at |-> r]) :
             u \in {Undefined, JNull, Num(0), Num(42), Str(""), Bool(FALSE)},
             r \in {Undefined, JNull, Str("2026-01-01T00:00:00Z")} }

UsageResponses ==
    {Undefined, JNull, Num(0), Str("")}
    \cup { MkObj([five_hour |-> a, seven_day |-> b, seven_day_sonnet |-> c, extra_usage |-> d]) :
             a \in UsageGroupValues, b \in {Undefined, JNull}, c \in UsageGroupValues,
             d \in {Undefined, JNull, Num(0), EmptyObj} }

OverageResponses ==
    {Undefined, JNull}
    \cup { MkObj([is_enabled |-> e, monthly_credit_limit |-> l, used_credits |-> u,
                  currency |-> c, out_of_credits |-> o]) :
             e \in {Undefined, JNull, Bool(TRUE), Bool(FALSE)},
             l \in {Undefined, JNull, Num(0), Num(200), Num(1000)},
             u \in {Undefined, JNull, Num(0), Num(29), Num(50), Num(1500)},
             c \in {Undefined, JNull, Str("USD"), Str("EUR"), Str("")},
             o \in {Undefined, JNull, Bool(TRUE), Bool(FALSE)} }

PrepaidResponses ==
    {Undefined, JNull}
    \cup { MkObj([remaining_credits |-> a, balance |-> b, credit_balance |-> c,
                  available_credits |-> d, currency |-> e]) :
             a \in {Undefined, JNull, Num(0), Num(2500)},
             b \in {Undefined, JNull, Num(0), Num(2500)},
             c \in {Undefined, JNull, Num(0), Num(75)},
             d \in {Undefined, JNull, Num(0), Num(75)},
             e \in {Undefined, JNull, Str("EUR")} }

SchemaIdle ==
    /\ endpoint = Idle /\ response = Idle /\ schemaPc = "idle"
    /\ extracted = Idle /\ processed = Idle

RootIdle ==
    /\ fsKind = <<>> /\ envPath = Idle /\ claudeConfigPaths = <<>> /\ rootPc = "idle"
    /\ findIdx = 0 /\ dataDir = Idle /\ statLog = <<>>
    /\ workspacePath = Idle /\ projectDirName = Idle

LoadIdle ==
    /\ sinceTimestamp = Idle /\ loadPc = "idle" /\ fileRecords = <<>>
    /\ linesRead = 0 /\ lastContent = Idle /\ allRecords = <<>> /\ report = Idle

SessIdle ==
    /\ now = 0 /\ sessPc = "idle" /\ sessionStart = 0 /\ sessDataDir = Idle
    /\ allJsonlFiles = <<>> /\ mainSessionFiles = <<>> /\ recentFiles = <<>>
    /\ fileIdx = 0 /\ tally = Idle /\ fsLog = <<>> /\ contentsRead = <<>>
    /\ sessReport = Idle

TrackIdle ==
    /\ tokenLimitSetting = Idle /\ sessionFile = Idle
    /\ currentSession = <<>> /\ calls = <<>>

InitSchema ==
    /\ endpoint \in {"usage", "overageSpendLimit", "prepaidCredits"}
    /\ response \in CASE endpoint = "usage" -> UsageResponses
                      [] endpoint = "overageSpendLimit" -> OverageResponses
                      [] OTHER -> PrepaidResponses
    /\ schemaPc = "pending"
    /\ extracted = Idle
    /\ processed = Idle
    /\ RootIdle
    /\ LoadIdle
    /\ SessIdle
    /\ TrackIdle

HandleUsage ==
    /\ schemaPc = "pending" /\ endpoint = "usage"
    /\ extracted' = extractFromSchema(response, USAGE_API_SCHEMA)
    /\ schemaPc' = "done"
    /\ UNCHANGED <<endpoint, response, processed, rootVars, loadVars, sessVars, trackVars>>

HandleOverage ==
    /\ schemaPc = "pending" /\ endpoint = "overageSpendLimit"
    /\ processed' = processOverageData(response)
    /\ extracted' = IF Truthy(response)
                    THEN extractFromSchema(response, OVERAGE_API_SCHEMA)
                    ELSE Idle
    /\ schemaPc' = "done"
    /\ UNCHANGED <<endpoint, response, rootVars, loadVars, sessVars, trackVars>>

HandlePrepaid ==
    /\ schemaPc = "pending" /\ endpoint = "prepaidCredits"
    /\ processed' = processPrepaidData(response)
    /\ schemaPc' = "done"
    /\ UNCHANGED <<endpoint, response, extracted, rootVars, loadVars, sessVars, trackVars>>

NextSchema == HandleUsage \/ HandleOverage \/ HandlePrepaid

SpecSchema == InitSchema /\ [][NextSchema]_vars

(***************************************************************************)
(* What the specification says of a path, stated without the code's walk.  *)
(***************************************************************************)
PathKeys(path) == SelectSeq(path, LAMBDA x : x # ".")

\* The value stored at the end of the key chain, Undefined when any link is missing.
RECURSIVE ValueAt(_, _)
ValueAt(v, keys) ==
    IF keys = <<>> THEN v
    ELSE IF v.t = "object" /\ Head(keys) \in DOMAIN v.o
         THEN ValueAt(v.o[Head(keys)], Tail(keys))
         ELSE Undefined

DeclaredValue(raw, field) ==
    LET v == ValueAt(raw, PathKeys(field.path))
    IN  IF v \in {Undefined, JNull} THEN field.default ELSE v

ExtractsAsDeclared(raw, schema, ex) ==
    /\ ex # TypeError
    /\ ex.t = "object"
    /\ DOMAIN ex.o = DOMAIN schema
    /\ \A g \in DOMAIN schema :
          IF "path" \in DOMAIN schema[g]
          THEN ex.o[g] = DeclaredValue(raw, schema[g])
          ELSE /\ ex.o[g].t = "object"
               /\ DOMAIN ex.o[g].o = DOMAIN schema[g]
               /\ \A f \in DOMAIN schema[g] :
                      ex.o[g].o[f] = DeclaredValue(raw, schema[g][f])

\* C6: extraction never raises, yields exactly the schema's group and field
\* names, and each field is the declared default exactly when the value at its
\* path is absent, undefined or null, the real value (0, false, "" included)
\* otherwise.
C6_ExtractionTotalAndNullish ==
    (schemaPc = "done" /\ extracted # Idle) =>
        ExtractsAsDeclared(response,
                           IF endpoint = "usage" THEN USAGE_API_SCHEMA ELSE OVERAGE_API_SCHEMA,
                           extracted)

\* A response whose five_hour.utilization is a real 0 (kept), whose seven_day is
\* null and whose seven_day_sonnet is a non-object (both defaulted).
C6_Witness ==
    /\ schemaPc = "done" /\ endpoint = "usage"
    /\ response = MkObj([five_hour |-> MkObj([utilization |-> Num(0), resets_at |-> Undefined]),
                         seven_day |-> JNull, seven_day_sonnet |-> Str(""),
                         extra_usage |-> Num(0)])
    /\ extracted.o.fiveHour.o.utilization = Num(0)
    /\ extracted.o.sevenDay.o.utilization = Num(0)
    /\ extracted.o.sevenDaySonnet.o.utilization = JNull
    /\ extracted.o.extraUsage.o.value = Num(0)

\* The integer nearest to 100 * u / l (l > 0), a tie going up.
NearestPercent(u, l) ==
    CHOOSE p \in 0 .. ((100 * u) \div l) + 1 :
        (2 * p - 1) * l <= 200 * u /\ 200 * u < (2 * p + 1) * l

CentsAt(raw, key) ==
    LET v == ValueAt(raw, <<key>>)
    IN  IF v \in {Undefined, JNull} THEN 0 ELSE v.n

PrepaidAlternatives ==
    <<"remaining_credits", "balance", "credit_balance", "available_credits">>

\* The first alternative, in order, that is present and not null; 0 when none is.
ResolvedBalance(raw) ==
    LET present == { i \in 1 .. Len(PrepaidAlternatives) :
                        ValueAt(raw, <<PrepaidAlternatives[i]>>) \notin {Undefined, JNull} }
    IN  IF present = {} THEN Num(0)
        ELSE ValueAt(raw, <<PrepaidAlternatives[CHOOSE i \in present :
                                                  \A j \in present : i <= j]>>)

\* C8: processPrepaidData resolves the balance as the first non-nullish
\* alternative (default 0), is null exactly when that balance is 0 or the input
\* is absent, and otherwise returns the balance divided by 100 with the raw
\* currency or 'USD'.
C8_PrepaidFirstNonNullish ==
    (schemaPc = "done" /\ endpoint = "prepaidCredits") =>
        LET b == ResolvedBalance(response)
            c == ValueAt(response, <<"currency">>)
        IN  IF response \in {Undefined, JNull} \/ b = Num(0)
            THEN processed = JNull
            ELSE processed =
                    Obj([ balance |-> Rat(b.n, 100),
                          currency |-> IF c \in {Undefined, JNull} THEN Str("USD") ELSE c ])

\* {remaining_credits: 2500, currency: 'EUR'} gives {balance: 25, currency: 'EUR'}.
C8_Witness ==
    /\ schemaPc = "done" /\ endpoint = "prepaidCredits"
    /\ response = MkObj([remaining_credits |-> Num(2500), balance |-> Undefined,
                         credit_balance |-> Undefined, available_credits |-> Undefined,
                         currency |-> Str("EUR")])
    /\ processed = Obj([balance |-> Num(25), currency |-> Str("EUR")])

(***************************************************************************)
(* claudeDataLoader.js: the candidate roots and their resolution.  A path  *)
(* is a sequence of symbols; the two default locations are one symbol each.*)
(***************************************************************************)
MaxEnvLen == 3
EnvSymbols == {"a", "b", ",", " "}
Whitespace == {" "}

DefaultConfigProjects == <<"~/.config/claude/projects">>
DefaultClaudeProjects == <<"~/.claude/projects">>

\* String.prototype.trim
RECURSIVE TrimStart(_)
TrimStart(s) == IF s # <<>> /\ Head(s) \in Whitespace THEN TrimStart(Tail(s)) ELSE s

RECURSIVE TrimEnd(_)
TrimEnd(s) ==
    IF s # <<>> /\ s[Len(s)] \in Whitespace THEN TrimEnd(SubSeq(s, 1, Len(s) - 1)) ELSE s

Trim(s) == TrimEnd(TrimStart(s))

\* Mutant: the default locations ahead of the override entries.
getClaudeConfigPathsDefaultsFirst(env) ==
    <<DefaultConfigProjects, DefaultClaudeProjects>>
    \o (IF Truthy(env)
        THEN [i \in 1 .. Len(Split(env.s, ",")) |-> Trim(Split(env.s, ",")[i])]
        ELSE <<>>)

getClaudeConfigPaths(env) ==
    (IF Truthy(env)
     THEN [i \in 1 .. Len(Split(env.s, ",")) |-> Trim(Split(env.s, ",")[i])]
     ELSE <<>>)
    \o <<DefaultConfigProjects, DefaultClaudeProjects>>

\* fs.stat(path): "dir", "file", or "ENOENT" when the call rejects.
Stat(path) == IF path \in DOMAIN fsKind THEN fsKind[path] ELSE "ENOENT"

\* workspacePath.replace(/\//g, '-')
RECURSIVE convertPathToClaudeDir(_)
convertPathToClaudeDir(path) ==
    IF path = <<>> THEN <<>>
    ELSE <<IF Head(path) = "/" THEN "-" ELSE Head(path)>> \o convertPathToClaudeDir(Tail(path))

\* new ClaudeDataLoader(workspacePath)
Construct ==
    /\ rootPc = "new"
    /\ claudeConfigPaths' = getClaudeConfigPaths(envPath)
    /\ projectDirName' = IF Truthy(workspacePath)
                          THEN Str(convertPathToClaudeDir(workspacePath.s))
                          ELSE JNull
    /\ rootPc' = "constructed"
    /\ UNCHANGED <<fsKind, envPath, findIdx, dataDir, statLog, workspacePath>>

\* findClaudeDataDirectory is entered.
FindBegin ==
    /\ rootPc = "constructed"
    /\ findIdx' = 1
    /\ rootPc' = "finding"
    /\ UNCHANGED <<fsKind, envPath, claudeConfigPaths, dataDir, statLog,
                   workspacePath, projectDirName>>

\* One turn of the loop: await fs.stat(dirPath); a directory is returned at once.
FindStat ==
    /\ rootPc = "finding"
    /\ findIdx <= Len(claudeConfigPaths)
    /\ LET dirPath == claudeConfigPaths[findIdx]
       IN  /\ statLog' = Append(statLog, dirPath)
           /\ IF Stat(dirPath) = "dir"
              THEN dataDir' = Str(dirPath) /\ rootPc' = "found" /\ UNCHANGED findIdx
              ELSE findIdx' = findIdx + 1 /\ UNCHANGED <<dataDir, rootPc>>
    /\ UNCHANGED <<fsKind, envPath, claudeConfigPaths, workspacePath, projectDirName>>

\* The loop ran out of candidates: warn and return null.
FindNone ==
    /\ rootPc = "finding"
    /\ findIdx > Len(claudeConfigPaths)
    /\ dataDir' = JNull
    /\ rootPc' = "notfound"
    /\ UNCHANGED <<fsKind, envPath, claudeConfigPaths, findIdx, statLog,
                   workspacePath, projectDirName>>

RECURSIVE SeqsUpTo(_, _)
SeqsUpTo(S, n) ==
    IF n = 0 THEN {<<>>}
    ELSE LET shorter == SeqsUpTo(S, n - 1)
         IN  shorter \cup { Append(q, x) : q \in { r \in shorter : Len(r) = n - 1 }, x \in S }

StatablePaths == {<<"a">>, <<"b">>, DefaultConfigProjects, DefaultClaudeProjects}

FileSystems ==
    UNION { [D -> {"dir", "file"}] : D \in SUBSET StatablePaths }

InitRoots ==
    /\ fsKind \in FileSystems
    /\ envPath \in {Undefined} \cup { Str(e) : e \in SeqsUpTo(EnvSymbols, MaxEnvLen) }
    /\ claudeConfigPaths = <<>>
    /\ rootPc = "new"
    /\ findIdx = 0
    /\ dataDir = None
    /\ statLog = <<>>
    /\ workspacePath = JNull
    /\ projectDirName = None
    /\ SchemaIdle
    /\ LoadIdle
    /\ SessIdle
    /\ TrackIdle

NextRoots ==
    \/ (Construct /\ UNCHANGED <<schemaVars, loadVars, sessVars, trackVars>>)
    \/ (FindBegin /\ UNCHANGED <<schemaVars, loadVars, sessVars, trackVars>>)
    \/ (FindStat /\ UNCHANGED <<schemaVars, loadVars, sessVars, trackVars>>)
    \/ (FindNone /\ UNCHANGED <<schemaVars, loadVars, sessVars, trackVars>>)

SpecRoots == InitRoots /\ [][NextRoots]_vars

(***************************************************************************)
(* C10, stated without the code's split, trim and loop.                    *)
(***************************************************************************)
Count(s, x) == Cardinality({ i \in 1 .. Len(s) : s[i] = x })

IsSlice(e, s) ==
    \E i \in 1 .. Len(s) + 1 : \E j \in i - 1 .. Len(s) : e = SubSeq(s, i, j)

RECURSIVE JoinWith(_, _)
JoinWith(entries, sep) ==
    IF entries = <<>> THEN <<>>
    ELSE IF Len(entries) = 1 THEN entries[1]
    ELSE entries[1] \o <<sep>> \o JoinWith(Tail(entries), sep)

Unspaced(s) == SelectSeq(s, LAMBDA x : x \notin Whitespace)

\* entries are the comma-separated, trimmed pieces of env, in their order.
IsTrimmedSplit(entries, env) ==
    /\ Len(entries) = Count(env, ",") + 1
    /\ \A i \in 1 .. Len(entries) :
          /\ Count(entries[i], ",") = 0
          /\ entries[i] # <<>> => entries[i][1] \notin Whitespace
                                  /\ entries[i][Len(entries[i])] \notin Whitespace
          /\ IsSlice(entries[i], env)
    /\ Unspaced(JoinWith(entries, ",")) = Unspaced(env)

Qualifies(path) == path \in DOMAIN fsKind /\ fsKind[path] = "dir"

\* C10: the candidates are the trimmed comma-separated override entries in
\* their order, then the two defaults; resolution tries them in that order and
\* returns the first that is a directory, skipping those that fail to stat or
\* are no directory, and returns one candidate as it is.
C10_FirstQualifyingCandidateWins ==
    /\ rootPc \notin {"new", "idle"} =>
          LET n == Len(claudeConfigPaths)
          IN  /\ n >= 2
              /\ SubSeq(claudeConfigPaths, n - 1, n) =
                    <<DefaultConfigProjects, DefaultClaudeProjects>>
              /\ IF envPath = Undefined \/ envPath = Str(<<>>)
                 THEN n = 2
                 ELSE IsTrimmedSplit(SubSeq(claudeConfigPaths, 1, n - 2), envPath.s)
    /\ statLog = SubSeq(claudeConfigPaths, 1, Len(statLog))
    /\ rootPc = "found" =>
          \E k \in 1 .. Len(claudeConfigPaths) :
              /\ dataDir = Str(claudeConfigPaths[k])
              /\ Qualifies(claudeConfigPaths[k])
              /\ \A j \in 1 .. k - 1 : ~Qualifies(claudeConfigPaths[j])
              /\ Len(statLog) = k
    /\ rootPc = "notfound" =>
          /\ dataDir = JNull
          /\ \A j \in 1 .. Len(claudeConfigPaths) : ~Qualifies(claudeConfigPaths[j])
          /\ Len(statLog) = Len(claudeConfigPaths)

\* Override "a,b": a exists but is no directory, b is a directory and so are
\* both defaults; b is returned.
C10_Witness ==
    /\ rootPc = "found"
    /\ envPath = Str(<<"a", ",", "b">>)
    /\ Stat(<<"a">>) = "file"
    /\ Qualifies(DefaultConfigProjects) /\ Qualifies(DefaultClaudeProjects)
    /\ dataDir = Str(<<"b">>)
    /\ statLog = << <<"a">>, <<"b">> >>

(***************************************************************************)
(* claudeDataLoader.js: parsing, validation, identity, aggregation.        *)
(*                                                                         *)
(* fs.readFile answers a content: ok with its lines, or a rejection.  A    *)
(* line is Blank, Unparsable (JSON.parse throws) or the JSON value parsed. *)
(***************************************************************************)
Blank == [t |-> "blank"]
Unparsable == [t |-> "unparsable"]
ReadError == [ok |-> FALSE]
Content(lines) == [ok |-> TRUE, lines |-> lines]

NaN == [t |-> "NaN"]

\* typeof v
TypeOf(v) ==
    CASE v.t = "null" -> "object"
      [] v.t = "NaN" -> "number"
      [] OTHER -> v.t

\* a || b
OrElse(a, b) == IF Truthy(a) THEN a ELSE b

\* v?.k
OptProp(v, k) == IF IsNullish(v) THEN Undefined ELSE GetProp(v, k)

\* a >= b on numbers; false when either is NaN.
NumGe(a, b) == a.t = "number" /\ b.t = "number" /\ a.n * b.d >= b.n * a.d

\* new Date(v).getTime() for the timestamps that occur, NaN for anything else.
DateGetTime(v) ==
    CASE v = Str("1970-01-01T00:00:00.100Z") -> Num(100)
      [] v = Str("1970-01-01T00:00:00.200Z") -> Num(200)
      [] v = Str("1970-01-01T00:00:00.300Z") -> Num(300)
      [] OTHER -> NaN

\* Mutant: the synthetic-model test left out.
isValidUsageRecordNoSynthetic(record) ==
    /\ Truthy(record)
    /\ Truthy(GetProp(record, "message"))
    /\ Truthy(GetProp(GetProp(record, "message"), "usage"))
    /\ TypeOf(GetProp(GetProp(GetProp(record, "message"), "usage"), "input_tokens")) = "number"
    /\ TypeOf(GetProp(GetProp(GetProp(record, "message"), "usage"), "output_tokens")) = "number"
    /\ ~Truthy(GetProp(record, "isApiErrorMessage"))

isValidUsageRecord(record) ==
    /\ Truthy(record)
    /\ Truthy(GetProp(record, "message"))
    /\ Truthy(GetProp(GetProp(record, "message"), "usage"))
    /\ TypeOf(GetProp(GetProp(GetProp(record, "message"), "usage"), "input_tokens")) = "number"
    /\ TypeOf(GetProp(GetProp(GetProp(record, "message"), "usage"), "output_tokens")) = "number"
    /\ GetProp(GetProp(record, "message"), "model") # Str("<synthetic>")
    /\ ~Truthy(GetProp(record, "isApiErrorMessage"))

\* The blank lines are filtered out; a line that does not parse is warned about
\* and dropped; a rejected read is logged and yields no record.
parseJsonlFile(content) ==
    IF ~content.ok THEN <<>>
    ELSE LET lines == SelectSeq(content.lines, LAMBDA line : line # Blank)
         IN  SelectSeq(lines, LAMBDA line : line # Unparsable /\ isValidUsageRecord(line))

getRecordHash(record) ==
    LET messageId == OrElse(OptProp(GetProp(record, "message"), "id"), Str(""))
        requestId == OrElse(GetProp(record, "requestId"), Str(""))
    IN  Str(messageId.s \o "-" \o requestId.s)

\* allRecords.filter(record => new Date(record.timestamp).getTime() >= sinceTimestamp)
FilterSince(records, since) ==
    IF Truthy(since)
    THEN SelectSeq(records, LAMBDA record :
                      NumGe(DateGetTime(GetProp(record, "timestamp")), since))
    ELSE records

\* Mutant: no deduplication at all.
DedupeNone(records) == records

\* Mutant: a record is dropped only when it repeats the record just before it.
DedupeAdjacent(records) ==
    LET keep == { i \in 1 .. Len(records) :
                    i = 1 \/ getRecordHash(records[i]) # getRecordHash(records[i - 1]) }
        F[i \in 0 .. Len(records)] ==
            IF i = 0 THEN <<>>
            ELSE IF i \in keep THEN Append(F[i - 1], records[i]) ELSE F[i - 1]
    IN  F[Len(records)]

\* The loop over filteredRecords with seenHashes.
RECURSIVE DedupeLoop(_, _, _, _)
DedupeLoop(records, i, seenHashes, uniqueRecords) ==
    IF i > Len(records) THEN uniqueRecords
    ELSE LET hash == getRecordHash(records[i])
         IN  IF hash \notin seenHashes
             THEN DedupeLoop(records, i + 1, seenHashes \cup {hash},
                             Append(uniqueRecords, records[i]))
             ELSE DedupeLoop(records, i + 1, seenHashes, uniqueRecords)

\* Mutant: of the records sharing a hash the last one is kept.
DedupeKeepLast(records) ==
    LET keep == { i \in 1 .. Len(records) :
                    \A j \in i + 1 .. Len(records) :
                        getRecordHash(records[j]) # getRecordHash(records[i]) }
        F[i \in 0 .. Len(records)] ==
            IF i = 0 THEN <<>>
            ELSE IF i \in keep THEN Append(F[i - 1], records[i]) ELSE F[i - 1]
    IN  F[Len(records)]

Dedupe(records) == DedupeLoop(records, 1, {}, <<>>)

\* Mutant: the sums taken over the filtered, not yet deduplicated records.
SummedRecordsRaw(filteredRecords, uniqueRecords) == filteredRecords

\* The list the summing loop runs over.
SummedRecords(filteredRecords, uniqueRecords) == uniqueRecords

UsageOf(record) == GetProp(GetProp(record, "message"), "usage")

\* The summing loop: total += usage.field || 0, for the four fields.
RECURSIVE SumLoop(_, _, _)
SumLoop(records, i, totals) ==
    IF i > Len(records) THEN totals
    ELSE LET usage == UsageOf(records[i])
         IN  SumLoop(records, i + 1,
                [ input |-> NumAdd(totals.input, OrElse(GetProp(usage, "input_tokens"), Num(0))),
                  output |-> NumAdd(totals.output, OrElse(GetProp(usage, "output_tokens"), Num(0))),
                  cacheCreation |-> NumAdd(totals.cacheCreation,
                        OrElse(GetProp(usage, "cache_creation_input_tokens"), Num(0))),
                  cacheRead |-> NumAdd(totals.cacheRead,
                        OrElse(GetProp(usage, "cache_read_input_tokens"), Num(0))) ])

\* Mutant: without a root the call rejects instead of returning a report.
NoRootRejects == TypeError

ZeroUsageReport ==
    [ totalTokens |-> Num(0), inputTokens |-> Num(0), outputTokens |-> Num(0),
      cacheCreationTokens |-> Num(0), cacheReadTokens |-> Num(0),
      messageCount |-> Num(0), records |-> <<>> ]

\* Mutant: deduplication ahead of the timestamp filter.
AggregateDedupeFirst(records, since) ==
    LET filteredRecords == Dedupe(records)
        uniqueRecords == FilterSince(filteredRecords, since)
        totals == SumLoop(SummedRecords(filteredRecords, uniqueRecords), 1,
                          [input |-> Num(0), output |-> Num(0),
                           cacheCreation |-> Num(0), cacheRead |-> Num(0)])
    IN  [ totalTokens |-> NumAdd(NumAdd(NumAdd(totals.input, totals.output),
                                       totals.cacheCreation), totals.cacheRead),
          inputTokens |-> totals.input,
          outputTokens |-> totals.output,
          cacheCreationTokens |-> totals.cacheCreation,
          cacheReadTokens |-> totals.cacheRead,
          messageCount |-> Num(Len(uniqueRecords)),
          records |-> uniqueRecords ]

\* loadUsageRecords from the timestamp filter to the return.
Aggregate(records, since) ==
    LET filteredRecords == FilterSince(records, since)
        uniqueRecords == Dedupe(filteredRecords)
        totals == SumLoop(SummedRecords(filteredRecords, uniqueRecords), 1,
                          [input |-> Num(0), output |-> Num(0),
                           cacheCreation |-> Num(0), cacheRead |-> Num(0)])
    IN  [ totalTokens |-> NumAdd(NumAdd(NumAdd(totals.input, totals.output),
                                       totals.cacheCreation), totals.cacheRead),
          inputTokens |-> totals.input,
          outputTokens |-> totals.output,
          cacheCreationTokens |-> totals.cacheCreation,
          cacheReadTokens |-> totals.cacheRead,
          messageCount |-> Num(Len(uniqueRecords)),
          records |-> uniqueRecords ]

(***************************************************************************)
(* loadUsageRecords, one action per await.                                 *)
(***************************************************************************)
\* await this.findClaudeDataDirectory()
LoadBegin ==
    /\ loadPc = "start"
    /\ FindBegin
    /\ loadPc' = "resolving"
    /\ UNCHANGED <<sinceTimestamp, fileRecords, linesRead, lastContent,
                   allRecords, report>>

\* No data root: the zero-valued report.
LoadNoRoot ==
    /\ loadPc = "resolving" /\ rootPc = "notfound"
    /\ report' = ZeroUsageReport
    /\ loadPc' = "done"
    /\ UNCHANGED <<sinceTimestamp, fileRecords, linesRead, lastContent,
                   allRecords, rootVars>>

\* await this.findJsonlFiles(dataDir)
LoadEnumerate ==
    /\ loadPc = "resolving" /\ rootPc = "found"
    /\ loadPc' = "parsing"
    /\ UNCHANGED <<sinceTimestamp, fileRecords, linesRead, lastContent, allRecords,
                   report, rootVars>>

\* The next file of jsonlFiles, when there is one:
\* await this.parseJsonlFile(filePath); allRecords.push(...records)
LoadParseFile(lineValues, maxFiles, maxLines) ==
    /\ loadPc = "parsing"
    /\ Len(fileRecords) < maxFiles
    /\ \E content \in {ReadError}
                      \cup { Content(l) : l \in SeqsUpTo(lineValues, maxLines - linesRead) } :
          LET records == parseJsonlFile(content)
          IN  /\ lastContent' = content
              /\ fileRecords' = Append(fileRecords, records)
              /\ allRecords' = allRecords \o records
              /\ linesRead' = linesRead + (IF content.ok THEN Len(content.lines) ELSE 0)
    /\ UNCHANGED <<sinceTimestamp, loadPc, report, rootVars>>

\* jsonlFiles is exhausted: filter, deduplicate, sum and return.
LoadFinish ==
    /\ loadPc = "parsing"
    /\ report' = Aggregate(allRecords, sinceTimestamp)
    /\ loadPc' = "done"
    /\ UNCHANGED <<sinceTimestamp, fileRecords, linesRead, lastContent,
                   allRecords, rootVars>>

(***************************************************************************)
(* The log lines the specifications draw from.                             *)
(***************************************************************************)
MaxFiles == 2
MaxLines == 4
MaxValLines == 2

Usage(inp, out, cc, cr) ==
    MkObj([input_tokens |-> inp, output_tokens |-> out,
           cache_creation_input_tokens |-> cc, cache_read_input_tokens |-> cr])

Message(id, model, usage) == MkObj([id |-> id, model |-> model, usage |-> usage])

LogLine(message, requestId, timestamp, err) ==
    MkObj([type |-> Str("assistant"), message |-> message, requestId |-> requestId,
           timestamp |-> timestamp, isApiErrorMessage |-> err])

T100 == Str("1970-01-01T00:00:00.100Z")
T200 == Str("1970-01-01T00:00:00.200Z")
T300 == Str("1970-01-01T00:00:00.300Z")

\* Valid records: two occurrences of identity (m1, r1) that differ in content
\* and age, two records that each differ from it in one id, one without ids.
RecShared ==
    LogLine(Message(Str("m1"), Str("claude-x"), Usage(Num(10), Num(5), Num(100), Num(1000))),
            Str("r1"), T200, Undefined)
RecSharedOld ==
    LogLine(Message(Str("m1"), Str("claude-x"), Usage(Num(7), Num(3), Undefined, Undefined)),
            Str("r1"), T100, Bool(FALSE))
RecOtherMessage ==
    LogLine(Message(Str("m2"), Str("claude-x"), Usage(Num(1), Num(2), Undefined, Num(500))),
            Str("r1"), T200, Undefined)
RecOtherRequest ==
    LogLine(Message(Str("m1"), Undefined, Usage(Num(4), Num(0), JNull, Num(1200))),
            Str("r2"), T300, Undefined)
RecNoIds ==
    LogLine(Message(Undefined, Str("claude-x"), Usage(Num(2), Num(2), Num(0), Num(0))),
            Undefined, Undefined, Undefined)
LoadLines == {RecShared, RecSharedOld, RecOtherMessage, RecOtherRequest, RecNoIds}

\* Every way of failing one or more conditions of a usage record.
ValidationUsages ==
    {Undefined, JNull, Num(5),
     Usage(Undefined, Num(5), Undefined, Undefined),
     Usage(Str("10"), Num(5), Undefined, Undefined),
     Usage(Num(10), Undefined, Undefined, Undefined),
     Usage(Num(10), Str("5"), Undefined, Undefined),
     Usage(Num(0), Num(0), Undefined, Undefined),
     Usage(Num(10), Num(5), Num(1), Num(2))}

ValidationLines ==
    {Blank, Unparsable, JNull, Num(5), Str("x"), EmptyObj}
    \cup { LogLine(m, Str("r1"), T200, Undefined) : m \in {Undefined, JNull, Str("hi")} }
    \cup { LogLine(Message(Str("m1"), model, u), Str("r1"), T200, err) :
             model \in {Str("claude-x"), Str("<synthetic>")},
             u \in ValidationUsages,
             err \in {Undefined, Bool(TRUE)} }
    \cup { LogLine(Message(Str("m1"), Undefined, Usage(Num(10), Num(5), Undefined, Undefined)),
                   Str("r1"), T200, Bool(FALSE)) }

InitLoader(fileSystems, sinces) ==
    /\ fsKind \in fileSystems
    /\ envPath = Undefined
    /\ claudeConfigPaths = <<>>
    /\ rootPc = "new"
    /\ findIdx = 0
    /\ dataDir = None
    /\ statLog = <<>>
    /\ workspacePath = JNull
    /\ projectDirName = None
    /\ sinceTimestamp \in sinces
    /\ loadPc = "start"
    /\ fileRecords = <<>>
    /\ linesRead = 0
    /\ lastContent = Idle
    /\ allRecords = <<>>
    /\ report = None
    /\ SchemaIdle
    /\ SessIdle
    /\ TrackIdle

\* SpecLoad: one loader, one call of loadUsageRecords.
InitLoad == InitLoader({<<>>, DefaultClaudeProjects :> "dir"}, {JNull, Num(200)})

NextLoad ==
    \/ (Construct /\ UNCHANGED <<schemaVars, loadVars, sessVars, trackVars>>)
    \/ (LoadBegin /\ UNCHANGED <<schemaVars, sessVars, trackVars>>)
    \/ (FindStat /\ UNCHANGED <<schemaVars, loadVars, sessVars, trackVars>>)
    \/ (FindNone /\ UNCHANGED <<schemaVars, loadVars, sessVars, trackVars>>)
    \/ (LoadNoRoot /\ UNCHANGED <<schemaVars, sessVars, trackVars>>)
    \/ (LoadEnumerate /\ UNCHANGED <<schemaVars, sessVars, trackVars>>)
    \/ (LoadParseFile(LoadLines, MaxFiles, MaxLines) /\ UNCHANGED <<schemaVars, sessVars, trackVars>>)
    \/ (LoadFinish /\ UNCHANGED <<schemaVars, sessVars, trackVars>>)

SpecLoad == InitLoad /\ [][NextLoad]_vars

\* SpecValidate: the same call over one file of arbitrary lines.
InitValidate == InitLoader({DefaultConfigProjects :> "dir"}, {JNull})

NextValidate ==
    \/ (Construct /\ UNCHANGED <<schemaVars, loadVars, sessVars, trackVars>>)
    \/ (LoadBegin /\ UNCHANGED <<schemaVars, sessVars, trackVars>>)
    \/ (FindStat /\ UNCHANGED <<schemaVars, loadVars, sessVars, trackVars>>)
    \/ (LoadEnumerate /\ UNCHANGED <<schemaVars, sessVars, trackVars>>)
    \/ (LoadParseFile(ValidationLines, 1, MaxValLines) /\ UNCHANGED <<schemaVars, sessVars, trackVars>>)
    \/ (LoadFinish /\ UNCHANGED <<schemaVars, sessVars, trackVars>>)

SpecValidate == InitValidate /\ [][NextValidate]_vars

\* SpecIdentity: the same call over one file of valid records that differ in
\* their ids alone: absent, empty, plain, or holding a "-".
MaxIdLines == 2

IdentityLines ==
    { LogLine(Message(messageId, Str("claude-x"), Usage(Num(1), Num(1), Undefined, Undefined)),
              requestId, T200, Undefined) :
        messageId \in {Undefined, Str(""), Str("a"), Str("a-b")},
        requestId \in {Undefined, Str(""), Str("c"), Str("b-c")} }

InitIdentity == InitLoader({DefaultConfigProjects :> "dir"}, {JNull})

NextIdentity ==
    \/ (Construct /\ UNCHANGED <<schemaVars, loadVars, sessVars, trackVars>>)
    \/ (LoadBegin /\ UNCHANGED <<schemaVars, sessVars, trackVars>>)
    \/ (FindStat /\ UNCHANGED <<schemaVars, loadVars, sessVars, trackVars>>)
    \/ (LoadEnumerate /\ UNCHANGED <<schemaVars, sessVars, trackVars>>)
    \/ (LoadParseFile(IdentityLines, 1, MaxIdLines) /\ UNCHANGED <<schemaVars, sessVars, trackVars>>)
    \/ (LoadFinish /\ UNCHANGED <<schemaVars, sessVars, trackVars>>)

SpecIdentity == InitIdentity /\ [][NextIdentity]_vars

(***************************************************************************)
(* Claims about loadUsageRecords, stated on the records themselves.        *)
(***************************************************************************)
\* A token component of a record as an integer, 0 when it is absent or null.
Component(record, field) ==
    LET v == ValueAt(record, <<"message", "usage", field>>)
    IN  IF v.t = "number" THEN v.n ELSE 0

RECURSIVE SumOver(_, _)
SumOver(records, field) ==
    IF records = <<>> THEN 0
    ELSE Component(records[Len(records)], field)
         + SumOver(SubSeq(records, 1, Len(records) - 1), field)

TokenFields ==
    <<"input_tokens", "output_tokens", "cache_creation_input_tokens",
      "cache_read_input_tokens">>

AllTokens(record) ==
    Component(record, TokenFields[1]) + Component(record, TokenFields[2])
    + Component(record, TokenFields[3]) + Component(record, TokenFields[4])

\* The identity of a record: its message id and its request id, "" when absent.
IdOrEmpty(v) == IF v.t = "string" THEN v.s ELSE ""
Identity(record) ==
    <<IdOrEmpty(ValueAt(record, <<"message", "id">>)),
      IdOrEmpty(ValueAt(record, <<"requestId">>))>>

Elements(seq) == { seq[i] : i \in 1 .. Len(seq) }

\* C1: totalTokens is the sum of the four components, each component is the sum
\* of that component over the deduplicated list `records` (no identity twice,
\* every record one that was read) and messageCount is the length of `records`.
C1_TotalsOverDeduplicatedRecords ==
    loadPc = "done" =>
        /\ report.totalTokens =
              Num(report.inputTokens.n + report.outputTokens.n
                  + report.cacheCreationTokens.n + report.cacheReadTokens.n)
        /\ report.inputTokens = Num(SumOver(report.records, "input_tokens"))
        /\ report.outputTokens = Num(SumOver(report.records, "output_tokens"))
        /\ report.cacheCreationTokens =
              Num(SumOver(report.records, "cache_creation_input_tokens"))
        /\ report.cacheReadTokens = Num(SumOver(report.records, "cache_read_input_tokens"))
        /\ report.messageCount = Num(Len(report.records))
        /\ \A i, j \in 1 .. Len(report.records) :
              i # j => Identity(report.records[i]) # Identity(report.records[j])
        /\ Elements(report.records) \subseteq Elements(allRecords)
        /\ sinceTimestamp = JNull =>
              { Identity(r) : r \in Elements(report.records) }
                  = { Identity(r) : r \in Elements(allRecords) }

\* A pass in which a repeated identity was read, so that the raw sum is larger
\* than the reported one.
C1_Witness ==
    /\ loadPc = "done" /\ rootPc = "found"
    /\ Len(report.records) >= 2
    /\ Len(allRecords) > Len(report.records)
    /\ report.totalTokens.n
          < SumOver(allRecords, "input_tokens") + SumOver(allRecords, "output_tokens")
            + SumOver(allRecords, "cache_creation_input_tokens")
            + SumOver(allRecords, "cache_read_input_tokens")

\* Two files of two records each: record i of the first file is the same
\* record as record j of the second, and the other record of each file has an
\* identity that no other record of the two files has.
C2_TwoFilesSharingOneRecord(i, j) ==
    /\ loadPc = "done" /\ rootPc = "found" /\ sinceTimestamp = JNull
    /\ Len(fileRecords) = 2
    /\ Len(fileRecords[1]) = 2 /\ Len(fileRecords[2]) = 2
    /\ fileRecords[1][i] = fileRecords[2][j]
    /\ Identity(fileRecords[1][3 - i]) # Identity(fileRecords[1][i])
    /\ Identity(fileRecords[2][3 - j]) # Identity(fileRecords[1][i])
    /\ Identity(fileRecords[1][3 - i]) # Identity(fileRecords[2][3 - j])

\* C2 as stated: the two files give messageCount = 2.
C2_AsStated ==
    \A i, j \in 1 .. 2 :
        C2_TwoFilesSharingOneRecord(i, j) => report.messageCount = Num(2)

\* C2, amended: the two files give messageCount = 3 (not 4): the shared record
\* once and the two unique records, and every sum is over these three records.
C2_ThreeDistinctRecords ==
    \A i, j \in 1 .. 2 :
        C2_TwoFilesSharingOneRecord(i, j) =>
            LET three == <<fileRecords[1][i], fileRecords[1][3 - i], fileRecords[2][3 - j]>>
            IN  /\ report.messageCount = Num(3)
                /\ Elements(report.records) = Elements(three)
                /\ report.totalTokens =
                      Num(AllTokens(three[1]) + AllTokens(three[2]) + AllTokens(three[3]))
                /\ report.inputTokens = Num(SumOver(three, "input_tokens"))
                /\ report.outputTokens = Num(SumOver(three, "output_tokens"))
                /\ report.cacheCreationTokens =
                      Num(SumOver(three, "cache_creation_input_tokens"))
                /\ report.cacheReadTokens = Num(SumOver(three, "cache_read_input_tokens"))

C2_Witness ==
    /\ C2_TwoFilesSharingOneRecord(1, 1)
    /\ fileRecords[1] = <<RecShared, RecOtherMessage>>
    /\ fileRecords[2] = <<RecShared, RecOtherRequest>>
    /\ Len(allRecords) = 4
    /\ report.messageCount = Num(3)

RemoveAt(seq, j) == SubSeq(seq, 1, j - 1) \o SubSeq(seq, j + 1, Len(seq))

RECURSIVE Flatten(_)
Flatten(seqs) == IF seqs = <<>> THEN <<>> ELSE Head(seqs) \o Flatten(Tail(seqs))

\* C3: when a file is discovered a second time, its records entering the
\* processed sequence again, the report is the report of the pass without the
\* second discovery.
C3_DuplicateDiscoveryChangesNothing ==
    (loadPc = "done" /\ rootPc = "found") =>
        \A j \in 2 .. Len(fileRecords) :
            (\E i \in 1 .. j - 1 : fileRecords[i] = fileRecords[j]) =>
                report = Aggregate(Flatten(RemoveAt(fileRecords, j)), sinceTimestamp)

\* A file of two records with different identities, read twice.
C3_Witness ==
    /\ loadPc = "done" /\ rootPc = "found"
    /\ Len(fileRecords) = 2
    /\ fileRecords[1] = fileRecords[2]
    /\ Len(fileRecords[1]) = 2
    /\ report.messageCount = Num(2)
    /\ Len(allRecords) = 4

\* The five conditions of a usage record, read off the parsed line.
IsUsageRecord(line) ==
    /\ line.t = "object"
    /\ ValueAt(line, <<"message", "usage">>).t = "object"
    /\ ValueAt(line, <<"message", "usage", "input_tokens">>).t = "number"
    /\ ValueAt(line, <<"message", "usage", "output_tokens">>).t = "number"
    /\ ValueAt(line, <<"message", "model">>) # Str("<synthetic>")
    /\ ValueAt(line, <<"isApiErrorMessage">>) \in {Undefined, Bool(FALSE)}

\* C9: of the lines of a file, exactly those that parse and meet the five
\* conditions are accepted, in their order; so every record that is collected,
\* and every record of the report, meets them.
C9_AcceptedIffFiveConditions ==
    /\ (lastContent # Idle /\ lastContent.ok) =>
          fileRecords[Len(fileRecords)] =
              SelectSeq(lastContent.lines,
                        LAMBDA line : line \notin {Blank, Unparsable} /\ IsUsageRecord(line))
    /\ \A i \in 1 .. Len(allRecords) : IsUsageRecord(allRecords[i])
    /\ loadPc = "done" => \A i \in 1 .. Len(report.records) : IsUsageRecord(report.records[i])

\* A synthetic record is dropped next to an accepted one that differs only in
\* the model name.
C9_Witness ==
    /\ loadPc = "done"
    /\ lastContent =
          Content(<< LogLine(Message(Str("m1"), Str("<synthetic>"),
                                     Usage(Num(10), Num(5), Num(1), Num(2))),
                             Str("r1"), T200, Undefined),
                     LogLine(Message(Str("m1"), Str("claude-x"),
                                     Usage(Num(10), Num(5), Num(1), Num(2))),
                             Str("r1"), T200, Undefined) >>)
    /\ Len(report.records) = 1
    /\ report.totalTokens = Num(18)


\* No candidate root is a directory.
NoCandidateRoot ==
    \A k \in 1 .. Len(claudeConfigPaths) : ~Qualifies(claudeConfigPaths[k])

\* C11: when no candidate data root exists, loadUsageRecords (called with null
\* or, as getTodayUsage does, with a start-of-day timestamp) returns a report
\* whose token counts and messageCount are 0 and whose record list is empty;
\* it reads no file and does not reject.
C11_NoRootGivesZeroReport ==
    (loadPc = "done" /\ NoCandidateRoot) =>
        /\ DOMAIN report = {"totalTokens", "inputTokens", "outputTokens",
                            "cacheCreationTokens", "cacheReadTokens",
                            "messageCount", "records"}
        /\ \A f \in DOMAIN report \ {"records"} : report[f] = Num(0)
        /\ report.records = <<>>
        /\ fileRecords = <<>>

\* getTodayUsage (a numeric sinceTimestamp) on a machine without any root.
C11_Witness ==
    /\ loadPc = "done"
    /\ rootPc = "notfound"
    /\ Len(statLog) = 2
    /\ sinceTimestamp = Num(200)
    /\ report.messageCount = Num(0)
    /\ report.records = <<>>

\* The record passes the cutoff: there is none, or its timestamp is a time
\* at or after it.
PassesCutoff(record, since) ==
    \/ since = JNull
    \/ LET time == DateGetTime(ValueAt(record, <<"timestamp">>))
       IN  time.t = "number" /\ since.t = "number" /\ time.n >= since.n

\* The positions of `records` that pass the cutoff and whose identity no
\* earlier passing position has.
FirstSeenPositions(records, since) ==
    { i \in 1 .. Len(records) :
        /\ PassesCutoff(records[i], since)
        /\ \A j \in 1 .. i - 1 :
              PassesCutoff(records[j], since) => Identity(records[j]) # Identity(records[i]) }

\* The records at the positions P, in order.
RECURSIVE RecordsAt(_, _, _)
RecordsAt(records, P, i) ==
    IF i > Len(records) THEN <<>>
    ELSE (IF i \in P THEN <<records[i]>> ELSE <<>>) \o RecordsAt(records, P, i + 1)

\* C14: of the records processed (files in enumeration order, lines in line
\* order) the report keeps, for each identity, the first one encountered and
\* drops every later one, in the same file or in another; the kept records
\* stand in their first-seen order and no two share an identity.
C14_FirstSeenKeptInOrder ==
    (loadPc = "done" /\ rootPc = "found") =>
        /\ allRecords = Flatten(fileRecords)
        /\ report.records =
              RecordsAt(allRecords, FirstSeenPositions(allRecords, sinceTimestamp), 1)
        /\ \A i, j \in 1 .. Len(report.records) :
              i # j => Identity(report.records[i]) # Identity(report.records[j])

\* One identity three times, twice in the first file and once in the second,
\* the first occurrence differing from the later ones: the first is kept.
C14_Witness ==
    /\ loadPc = "done" /\ sinceTimestamp = JNull
    /\ fileRecords = << <<RecSharedOld, RecOtherMessage, RecShared>>, <<RecShared>> >>
    /\ report.records = <<RecSharedOld, RecOtherMessage>>

C18_AsStated ==
    loadPc = "done" =>
        /\ \A i, j \in 1 .. Len(report.records) :
              i # j => Identity(report.records[i]) # Identity(report.records[j])
        /\ { Identity(r) : r \in Elements(report.records) }
              = { Identity(r) : r \in Elements(allRecords) }

\* Half of C18: records with the same pair of ids are never both reported.
C18_SamePairReportedOnce ==
    loadPc = "done" =>
        \A i, j \in 1 .. Len(report.records) :
            i # j => Identity(report.records[i]) # Identity(report.records[j])

\* Message "a-b" with request "c", then message "a" with request "b-c": two
\* pairs, one key "a-b-c", one record reported.
C18_Collision ==
    /\ loadPc = "done"
    /\ Len(allRecords) = 2
    /\ Identity(allRecords[1]) = <<"a-b", "c">>
    /\ Identity(allRecords[2]) = <<"a", "b-c">>
    /\ getRecordHash(allRecords[1]) = getRecordHash(allRecords[2])
    /\ report.messageCount = Num(1)

(***************************************************************************)
(* claudeDataLoader.js: getCurrentSessionUsage.                            *)
(*                                                                         *)
(* A path is a sequence of symbols; a file name is a sequence of           *)
(* characters.  fs.stat of a log file answers its mtimeMs or rejects;      *)
(* fs.readFile answers a content or rejects.  Nothing outside the inner    *)
(* try blocks throws, so the outer catch (lines 716-727) has no action.    *)
(***************************************************************************)
SESSION_DURATION == 3600000

Last(seq) == seq[Len(seq)]
Front(seq) == SubSeq(seq, 1, Len(seq) - 1)

\* path.join(dir, name)
PathJoin(dir, name) == dir \o <<"/">> \o name

\* path.basename(filePath)
RECURSIVE Basename(_)
Basename(filePath) ==
    IF filePath = <<>> THEN <<>>
    ELSE IF Last(filePath) = "/" THEN <<>>
    ELSE Append(Basename(Front(filePath)), Last(filePath))

\* filename.startsWith(prefix)
StartsWith(filename, prefix) ==
    Len(filename) >= Len(prefix) /\ SubSeq(filename, 1, Len(prefix)) = prefix

AgentPrefix == <<"a", "g", "e", "n", "t", "-">>
DotJsonl == <<".", "j", "s", "o", "n", "l">>

\* [0-9a-f] under the i flag
HexDigits ==
    {"0", "1", "2", "3", "4", "5", "6", "7", "8", "9",
     "a", "b", "c", "d", "e", "f", "A", "B", "C", "D", "E", "F"}

\* One group [0-9a-f]{n} followed by the literal text sep, at the head of s:
\* what is left of s, or None when s does not start that way.
HexGroupThen(s, n, sep) ==
    IF /\ Len(s) >= n + Len(sep)
       /\ \A i \in 1 .. n : s[i] \in HexDigits
       /\ SubSeq(s, n + 1, n + Len(sep)) = sep
    THEN SubSeq(s, n + Len(sep) + 1, Len(s))
    ELSE None

\* /^[0-9a-f]{8}-[0-9a-f]{4}-[0-9a-f]{4}-[0-9a-f]{4}-[0-9a-f]{12}\.jsonl$/i.test(filename)
uuidPatternTest(filename) ==
    LET r1 == HexGroupThen(filename, 8, <<"-">>)
        r2 == IF r1 = None THEN None ELSE HexGroupThen(r1, 4, <<"-">>)
        r3 == IF r2 = None THEN None ELSE HexGroupThen(r2, 4, <<"-">>)
        r4 == IF r3 = None THEN None ELSE HexGroupThen(r3, 4, <<"-">>)
        r5 == IF r4 = None THEN None ELSE HexGroupThen(r4, 12, DotJsonl)
    IN  r5 = <<>>

\* Mutant: every listed file is taken for a main session file.
IsAnyJsonlFile(filePath) == filePath # <<>>

\* The filter callback of mainSessionFiles.
IsMainSessionFile(filePath) ==
    LET filename == Basename(filePath)
    IN  IF StartsWith(filename, AgentPrefix) THEN FALSE ELSE uuidPatternTest(filename)

\* The same, answering the root itself when there is no project directory.
ProjectDirOrGlobal(baseDir, projectDir) ==
    IF Stat(projectDir) = "dir" THEN Str(projectDir) ELSE Str(baseDir)

\* The tail of getProjectDataDirectory once baseDir is known: the project
\* directory when fs.stat says it is one, else null.
ProjectDirOrNull(baseDir, projectDir) ==
    IF Stat(projectDir) = "dir" THEN Str(projectDir) ELSE JNull

\* recentFiles.sort((a, b) => b.modified - a.modified): stable, newest first.
RECURSIVE InsertByModified(_, _)
InsertByModified(sorted, file) ==
    IF sorted = <<>> THEN <<file>>
    ELSE IF Head(sorted).modified >= file.modified
         THEN <<Head(sorted)>> \o InsertByModified(Tail(sorted), file)
         ELSE <<file>> \o sorted

RECURSIVE SortByModified(_)
SortByModified(files) ==
    IF files = <<>> THEN <<>>
    ELSE InsertByModified(SortByModified(Front(files)), Last(files))

ZeroTally ==
    [highestSessionTokens |-> Num(0), highestCacheCreation |-> Num(0),
     highestCacheRead |-> Num(0), totalMessageCount |-> Num(0),
     activeSessionCount |-> Num(0)]

\* The body of `if (entryCache > 0)`, summing every match instead of keeping the highest.
MatchedSummed(t, usage, lineCount) ==
    LET cacheRead == OrElse(GetProp(usage, "cache_read_input_tokens"), Num(0))
    IN  [highestSessionTokens |-> NumAdd(t.highestSessionTokens, cacheRead),
         highestCacheCreation |-> OrElse(GetProp(usage, "cache_creation_input_tokens"), Num(0)),
         highestCacheRead |-> NumAdd(t.highestCacheRead, cacheRead),
         totalMessageCount |-> NumAdd(t.totalMessageCount, Num(lineCount)),
         activeSessionCount |-> NumAdd(t.activeSessionCount, Num(1))]

\* Mutant: the highest value is replaced on a tie as well (>= for >).
MatchedOnTie(t, usage, lineCount) ==
    LET cacheRead == OrElse(GetProp(usage, "cache_read_input_tokens"), Num(0))
        counted == [t EXCEPT !.activeSessionCount = NumAdd(@, Num(1)),
                             !.totalMessageCount = NumAdd(@, Num(lineCount))]
    IN  IF NumGe(cacheRead, t.highestCacheRead)
        THEN [counted EXCEPT
                 !.highestCacheRead = cacheRead,
                 !.highestCacheCreation =
                     OrElse(GetProp(usage, "cache_creation_input_tokens"), Num(0)),
                 !.highestSessionTokens = cacheRead]
        ELSE counted

\* The body of `if (entryCache > 0)`.
Matched(t, usage, lineCount) ==
    LET cacheRead == OrElse(GetProp(usage, "cache_read_input_tokens"), Num(0))
        counted == [t EXCEPT !.activeSessionCount = NumAdd(@, Num(1)),
                             !.totalMessageCount = NumAdd(@, Num(lineCount))]
    IN  IF NumGt(cacheRead, t.highestCacheRead)
        THEN [counted EXCEPT
                 !.highestCacheRead = cacheRead,
                 !.highestCacheCreation =
                     OrElse(GetProp(usage, "cache_creation_input_tokens"), Num(0)),
                 !.highestSessionTokens = cacheRead]
        ELSE counted

\* Mutant: a line that throws ends the scan of its file.
RECURSIVE ScanLinesAbortOnThrow(_, _, _)
ScanLinesAbortOnThrow(lines, i, t) ==
    IF i < 1 THEN t
    ELSE LET entry == lines[i]
             type == GetProp(entry, "type")
             usage == OptProp(GetProp(entry, "message"), "usage")
         IN  IF entry \in {Blank, Unparsable} \/ type = TypeError
             THEN t
             ELSE IF type = Str("assistant") /\ Truthy(usage)
             THEN LET entryCache ==
                          NumAdd(OrElse(GetProp(usage, "cache_creation_input_tokens"), Num(0)),
                                 OrElse(GetProp(usage, "cache_read_input_tokens"), Num(0)))
                  IN  IF NumGt(entryCache, Num(0))
                      THEN Matched(t, usage, Len(lines))
                      ELSE ScanLinesAbortOnThrow(lines, i - 1, t)
             ELSE ScanLinesAbortOnThrow(lines, i - 1, t)

\* Mutant: the scan runs from the first line on and stops at the first match.
RECURSIVE FirstMatchFrom(_, _, _)
FirstMatchFrom(lines, j, t) ==
    IF j > Len(lines) THEN t
    ELSE LET entry == lines[j]
             type == GetProp(entry, "type")
             usage == OptProp(GetProp(entry, "message"), "usage")
         IN  IF entry \in {Blank, Unparsable} \/ type = TypeError
             THEN FirstMatchFrom(lines, j + 1, t)
             ELSE IF type = Str("assistant") /\ Truthy(usage)
             THEN LET entryCache ==
                          NumAdd(OrElse(GetProp(usage, "cache_creation_input_tokens"), Num(0)),
                                 OrElse(GetProp(usage, "cache_read_input_tokens"), Num(0)))
                  IN  IF NumGt(entryCache, Num(0))
                      THEN Matched(t, usage, Len(lines))
                      ELSE FirstMatchFrom(lines, j + 1, t)
             ELSE FirstMatchFrom(lines, j + 1, t)

ScanLinesForward(lines, i, t) == FirstMatchFrom(lines, 1, t)

\* for (let i = lines.length - 1; i >= 0; i--): lines[i] is the line at i here,
\* counted from 1.
RECURSIVE ScanLines(_, _, _)
ScanLines(lines, i, t) ==
    IF i < 1 THEN t
    ELSE LET entry == lines[i]
             type == GetProp(entry, "type")
             usage == OptProp(GetProp(entry, "message"), "usage")
         IN  IF entry \in {Blank, Unparsable} \/ type = TypeError
             THEN ScanLines(lines, i - 1, t)
             ELSE IF type = Str("assistant") /\ Truthy(usage)
             THEN LET entryCache ==
                          NumAdd(OrElse(GetProp(usage, "cache_creation_input_tokens"), Num(0)),
                                 OrElse(GetProp(usage, "cache_read_input_tokens"), Num(0)))
                  IN  IF NumGt(entryCache, Num(0))
                      THEN Matched(t, usage, Len(lines))
                      ELSE ScanLines(lines, i - 1, t)
             ELSE ScanLines(lines, i - 1, t)

\* content.trim().split('\n')
RECURSIVE DropBlankHead(_)
DropBlankHead(lines) ==
    IF lines # <<>> /\ Head(lines) = Blank THEN DropBlankHead(Tail(lines)) ELSE lines

RECURSIVE DropBlankTail(_)
DropBlankTail(lines) ==
    IF lines # <<>> /\ Last(lines) = Blank THEN DropBlankTail(Front(lines)) ELSE lines

TrimSplit(content) ==
    LET trimmed == DropBlankTail(DropBlankHead(content.lines))
    IN  IF trimmed = <<>> THEN <<Blank>> ELSE trimmed

\* The report of the four early returns and of the catch.
ZeroSessionReport ==
    [totalTokens |-> Num(0), inputTokens |-> Num(0), outputTokens |-> Num(0),
     cacheCreationTokens |-> Num(0), cacheReadTokens |-> Num(0),
     messageCount |-> Num(0), isActive |-> Bool(FALSE)]

\* The report of the scanning path.
SessionReport(t) ==
    [totalTokens |-> t.highestSessionTokens, inputTokens |-> Num(0),
     outputTokens |-> Num(0), cacheCreationTokens |-> t.highestCacheCreation,
     cacheReadTokens |-> t.highestCacheRead, messageCount |-> t.totalMessageCount,
     isActive |-> Bool(NumGt(t.highestSessionTokens, Num(0))),
     activeSessionCount |-> t.activeSessionCount]

FsCall(op, path) == [op |-> op, path |-> path]

\* What fs.stat answers for a log file: a rejection, or its mtimeMs.
StatError == [ok |-> FALSE]
Stats(mtimeMs) == [ok |-> TRUE, mtimeMs |-> mtimeMs]

(***************************************************************************)
(* getCurrentSessionUsage, one action per await.                           *)
(***************************************************************************)
\* sessionStart is taken; both branches first await findClaudeDataDirectory
\* (the project branch inside getProjectDataDirectory).
SessBegin ==
    /\ sessPc = "start"
    /\ FindBegin
    /\ sessionStart' = now - SESSION_DURATION
    /\ sessPc' = "resolving"
    /\ UNCHANGED <<now, sessDataDir, allJsonlFiles, mainSessionFiles, recentFiles,
                   fileIdx, tally, fsLog, contentsRead, sessReport>>

\* No root: getProjectDataDirectory / findClaudeDataDirectory answered null.
SessNoRoot ==
    /\ sessPc = "resolving" /\ rootPc = "notfound"
    /\ sessDataDir' = JNull
    /\ sessReport' = ZeroSessionReport
    /\ sessPc' = "done"
    /\ UNCHANGED <<now, sessionStart, allJsonlFiles, mainSessionFiles, recentFiles,
                   fileIdx, tally, fsLog, contentsRead, rootVars>>

\* Project branch: await fs.stat(projectDir); without a project directory the
\* zero report is returned.
SessStatProject ==
    /\ sessPc = "resolving" /\ rootPc = "found"
    /\ Truthy(projectDirName)
    /\ LET projectDir == PathJoin(dataDir.s, projectDirName.s)
           resolved == ProjectDirOrNull(dataDir.s, projectDir)
       IN  /\ fsLog' = Append(fsLog, FsCall("stat", projectDir))
           /\ sessDataDir' = resolved
           /\ IF Truthy(resolved)
              THEN sessPc' = "enumerate" /\ UNCHANGED sessReport
              ELSE sessPc' = "done" /\ sessReport' = ZeroSessionReport
    /\ UNCHANGED <<now, sessionStart, allJsonlFiles, mainSessionFiles, recentFiles,
                   fileIdx, tally, contentsRead, rootVars>>

\* Global branch: the root itself is the data directory.
SessGlobal ==
    /\ sessPc = "resolving" /\ rootPc = "found"
    /\ ~Truthy(projectDirName)
    /\ sessDataDir' = dataDir
    /\ sessPc' = "enumerate"
    /\ UNCHANGED <<now, sessionStart, allJsonlFiles, mainSessionFiles, recentFiles,
                   fileIdx, tally, fsLog, contentsRead, sessReport, rootVars>>

\* await this.findJsonlFiles(dataDir), then the name filter.  The listing is
\* what the walk below dataDir finds: .jsonl files of distinct names (none
\* when readdir rejects).
SessEnumerate(names, maxFiles) ==
    /\ sessPc = "enumerate"
    /\ \E listing \in { q \in SeqsUpTo(names, maxFiles) :
                          \A i, j \in 1 .. Len(q) : q[i] = q[j] => i = j } :
          LET found == [i \in 1 .. Len(listing) |-> PathJoin(sessDataDir.s, listing[i])]
          IN  /\ allJsonlFiles' = found
              /\ mainSessionFiles' = SelectSeq(found, IsMainSessionFile)
    /\ fsLog' = Append(fsLog, FsCall("readdir", sessDataDir.s))
    /\ recentFiles' = <<>>
    /\ fileIdx' = 1
    /\ sessPc' = "stat"
    /\ UNCHANGED <<now, sessionStart, sessDataDir, tally, contentsRead, sessReport,
                   rootVars>>

\* One turn of the stat loop: await fs.stat(filePath).
SessStat ==
    /\ sessPc = "stat"
    /\ fileIdx <= Len(mainSessionFiles)
    /\ LET filePath == mainSessionFiles[fileIdx]
       IN  \E stats \in {StatError}
                         \cup { Stats(m) : m \in {sessionStart - 1, sessionStart,
                                                  sessionStart + 1} } :
              /\ fsLog' = Append(fsLog, FsCall("stat", filePath) @@ [answer |-> stats])
              /\ recentFiles' =
                    IF stats.ok /\ stats.mtimeMs >= sessionStart
                    THEN Append(recentFiles, [path |-> filePath, modified |-> stats.mtimeMs])
                    ELSE recentFiles
    /\ fileIdx' = fileIdx + 1
    /\ UNCHANGED <<now, sessPc, sessionStart, sessDataDir, allJsonlFiles,
                   mainSessionFiles, tally, contentsRead, sessReport, rootVars>>

\* The stat loop is over: sort; no recent file gives the zero report.
SessSort ==
    /\ sessPc = "stat"
    /\ fileIdx > Len(mainSessionFiles)
    /\ recentFiles' = SortByModified(recentFiles)
    /\ IF Len(recentFiles) = 0
       THEN sessPc' = "done" /\ sessReport' = ZeroSessionReport /\ UNCHANGED <<tally, fileIdx>>
       ELSE sessPc' = "read" /\ tally' = ZeroTally /\ fileIdx' = 1 /\ UNCHANGED sessReport
    /\ UNCHANGED <<now, sessionStart, sessDataDir, allJsonlFiles, mainSessionFiles,
                   fsLog, contentsRead, rootVars>>

RECURSIVE LinesIn(_)
LinesIn(contents) ==
    IF contents = <<>> THEN 0
    ELSE (IF Head(contents).ok THEN Len(Head(contents).lines) ELSE 0) + LinesIn(Tail(contents))

\* One turn of the read loop: await fs.readFile(filePath), then the backward scan.
SessRead(lineValues, maxLines) ==
    /\ sessPc = "read"
    /\ fileIdx <= Len(recentFiles)
    /\ \E content \in {ReadError}
                      \cup { Content(l) :
                               l \in SeqsUpTo(lineValues, maxLines - LinesIn(contentsRead)) } :
          /\ contentsRead' = Append(contentsRead, content)
          /\ tally' = IF content.ok
                      THEN LET lines == TrimSplit(content)
                           IN  ScanLines(lines, Len(lines), tally)
                      ELSE tally
    /\ fsLog' = Append(fsLog, FsCall("readFile", recentFiles[fileIdx].path))
    /\ fileIdx' = fileIdx + 1
    /\ UNCHANGED <<now, sessPc, sessionStart, sessDataDir, allJsonlFiles,
                   mainSessionFiles, recentFiles, sessReport, rootVars>>

\* The read loop is over: the report.
SessReturn ==
    /\ sessPc = "read"
    /\ fileIdx > Len(recentFiles)
    /\ sessReport' = SessionReport(tally)
    /\ sessPc' = "done"
    /\ UNCHANGED <<now, sessionStart, sessDataDir, allJsonlFiles, mainSessionFiles,
                   recentFiles, fileIdx, tally, fsLog, contentsRead, rootVars>>

(***************************************************************************)
(* SpecSession: one loader, one call of getCurrentSessionUsage.            *)
(***************************************************************************)
MaxSessionFiles == 2
MaxSessionLines == 2

Rep(c, n) == [i \in 1 .. n |-> c]

UuidName(c) ==
    Rep(c, 8) \o <<"-">> \o Rep(c, 4) \o <<"-">> \o Rep(c, 4) \o <<"-">> \o Rep(c, 4)
        \o <<"-">> \o Rep(c, 12) \o DotJsonl

SessionFileNames == {UuidName("a"), UuidName("7"), AgentPrefix \o UuidName("a")}

Workspace == <<"/", "w", "/", "p">>

CacheUsage(cc, cr) ==
    MkObj([cache_creation_input_tokens |-> cc, cache_read_input_tokens |-> cr])

Entry(type, usage) == MkObj([type |-> Str(type), message |-> MkObj([usage |-> usage])])

SessionLines ==
    {Unparsable,
     JNull,
     Entry("user", CacheUsage(Undefined, Num(500))),
     Entry("assistant", Undefined),
     Entry("assistant", CacheUsage(Num(0), Num(0))),
     Entry("assistant", CacheUsage(Undefined, Num(500))),
     Entry("assistant", CacheUsage(Num(100), Num(1200))),
     Entry("assistant", CacheUsage(Num(300), Num(0)))}

\* The directory Claude keeps for the workspace, below the default root.
WorkspaceProjectDir ==
    PathJoin(DefaultClaudeProjects, convertPathToClaudeDir(Workspace))

\* No workspace (null with or without a root, the empty string without one).
\* With a workspace: no root, or the root with the project path absent, a
\* file or a directory.
SessionSetups ==
    { <<JNull, <<>> >>, <<JNull, DefaultClaudeProjects :> "dir">>, <<Str(<<>>), <<>> >> }
    \cup
    { <<Str(Workspace), f>> :
        f \in {<<>>, DefaultClaudeProjects :> "dir"}
               \cup { (DefaultClaudeProjects :> "dir") @@ (WorkspaceProjectDir :> k) :
                        k \in {"dir", "file"} } }

InitSessionWith(setups) ==
    /\ \E setup \in setups : workspacePath = setup[1] /\ fsKind = setup[2]
    /\ envPath = Undefined
    /\ claudeConfigPaths = <<>>
    /\ rootPc = "new"
    /\ findIdx = 0
    /\ dataDir = None
    /\ statLog = <<>>
    /\ projectDirName = None
    /\ now \in {2 * SESSION_DURATION}
    /\ sessPc = "start"
    /\ sessionStart = 0
    /\ sessDataDir = None
    /\ allJsonlFiles = <<>>
    /\ mainSessionFiles = <<>>
    /\ recentFiles = <<>>
    /\ fileIdx = 0
    /\ tally = None
    /\ fsLog = <<>>
    /\ contentsRead = <<>>
    /\ sessReport = None
    /\ SchemaIdle
    /\ LoadIdle
    /\ TrackIdle

InitSession == InitSessionWith(SessionSetups)

NextSession ==
    \/ (Construct /\ UNCHANGED <<schemaVars, loadVars, sessVars, trackVars>>)
    \/ (SessBegin /\ UNCHANGED <<schemaVars, loadVars, trackVars>>)
    \/ (FindStat /\ UNCHANGED <<schemaVars, loadVars, sessVars, trackVars>>)
    \/ (FindNone /\ UNCHANGED <<schemaVars, loadVars, sessVars, trackVars>>)
    \/ (SessNoRoot /\ UNCHANGED <<schemaVars, loadVars, trackVars>>)
    \/ (SessStatProject /\ UNCHANGED <<schemaVars, loadVars, trackVars>>)
    \/ (SessGlobal /\ UNCHANGED <<schemaVars, loadVars, trackVars>>)
    \/ (SessEnumerate(SessionFileNames, MaxSessionFiles) /\ UNCHANGED <<schemaVars, loadVars, trackVars>>)
    \/ (SessStat /\ UNCHANGED <<schemaVars, loadVars, trackVars>>)
    \/ (SessSort /\ UNCHANGED <<schemaVars, loadVars, trackVars>>)
    \/ (SessRead(SessionLines, MaxSessionLines) /\ UNCHANGED <<schemaVars, loadVars, trackVars>>)
    \/ (SessReturn /\ UNCHANGED <<schemaVars, loadVars, trackVars>>)

SpecSession == InitSession /\ [][NextSession]_vars

(***************************************************************************)
(* SpecScan: the same call without a workspace, over at most two session   *)
(* files of up to MaxScanLines lines in all.                               *)
(***************************************************************************)
MaxScanFiles == 2
MaxScanLines == 3

ScanFileNames == {UuidName("a"), UuidName("7")}

ScanEntries ==
    {Unparsable,
     Entry("user", CacheUsage(Undefined, Num(500))),
     Entry("assistant", CacheUsage(Undefined, Num(500))),
     Entry("assistant", CacheUsage(Num(100), Num(1200))),
     Entry("assistant", CacheUsage(Num(200), Num(1200))),
     Entry("assistant", CacheUsage(Num(300), Num(0)))}

InitScan ==
    InitSessionWith({ <<JNull, <<>> >>, <<JNull, DefaultClaudeProjects :> "dir">> })

NextScan ==
    \/ (Construct /\ UNCHANGED <<schemaVars, loadVars, sessVars, trackVars>>)
    \/ (SessBegin /\ UNCHANGED <<schemaVars, loadVars, trackVars>>)
    \/ (FindStat /\ UNCHANGED <<schemaVars, loadVars, sessVars, trackVars>>)
    \/ (FindNone /\ UNCHANGED <<schemaVars, loadVars, sessVars, trackVars>>)
    \/ (SessNoRoot /\ UNCHANGED <<schemaVars, loadVars, trackVars>>)
    \/ (SessGlobal /\ UNCHANGED <<schemaVars, loadVars, trackVars>>)
    \/ (SessEnumerate(ScanFileNames, MaxScanFiles) /\ UNCHANGED <<schemaVars, loadVars, trackVars>>)
    \/ (SessStat /\ UNCHANGED <<schemaVars, loadVars, trackVars>>)
    \/ (SessSort /\ UNCHANGED <<schemaVars, loadVars, trackVars>>)
    \/ (SessRead(ScanEntries, MaxScanLines) /\ UNCHANGED <<schemaVars, loadVars, trackVars>>)
    \/ (SessReturn /\ UNCHANGED <<schemaVars, loadVars, trackVars>>)

SpecScan == InitScan /\ [][NextScan]_vars

(***************************************************************************)
(* SpecFilter: the same call over file names of every kind, each file one  *)
(* line long.                                                              *)
(***************************************************************************)
MaxFilterFiles == 3
MaxFilterLines == 1

FilterFileNames ==
    {UuidName("a"), UuidName("B"),
     AgentPrefix \o UuidName("a"),
     <<"n", "o", "t", "e", "s">> \o DotJsonl,
     UuidName("g"),
     <<"0">> \o UuidName("a"),
     Tail(UuidName("a"))}

FilterEntries == {Entry("assistant", CacheUsage(Undefined, Num(500)))}

InitFilter == InitSessionWith({ <<JNull, DefaultClaudeProjects :> "dir">> })

NextFilter ==
    \/ (Construct /\ UNCHANGED <<schemaVars, loadVars, sessVars, trackVars>>)
    \/ (SessBegin /\ UNCHANGED <<schemaVars, loadVars, trackVars>>)
    \/ (FindStat /\ UNCHANGED <<schemaVars, loadVars, sessVars, trackVars>>)
    \/ (SessGlobal /\ UNCHANGED <<schemaVars, loadVars, trackVars>>)
    \/ (SessEnumerate(FilterFileNames, MaxFilterFiles) /\ UNCHANGED <<schemaVars, loadVars, trackVars>>)
    \/ (SessStat /\ UNCHANGED <<schemaVars, loadVars, trackVars>>)
    \/ (SessSort /\ UNCHANGED <<schemaVars, loadVars, trackVars>>)
    \/ (SessRead(FilterEntries, MaxFilterLines) /\ UNCHANGED <<schemaVars, loadVars, trackVars>>)
    \/ (SessReturn /\ UNCHANGED <<schemaVars, loadVars, trackVars>>)

SpecFilter == InitFilter /\ [][NextFilter]_vars


(***************************************************************************)
(* Properties of getCurrentSessionUsage.                                   *)
(***************************************************************************)
WorkspaceIsSet == workspacePath.t = "string" /\ workspacePath.s # <<>>

\* The workspace path with every "/" turned into "-".
FlattenedName(ws) == [i \in 1 .. Len(ws) |-> IF ws[i] = "/" THEN "-" ELSE ws[i]]

\* Root resolution is over and gave no project directory: no root at all, or
\* the flattened name below the resolved root is absent or not a directory.
ProjectDirUnresolved ==
    \/ rootPc = "notfound"
    \/ /\ rootPc = "found"
       /\ ~Qualifies(dataDir.s \o <<"/">> \o FlattenedName(workspacePath.s))

InactiveZero(r) ==
    /\ \A f \in DOMAIN r \ {"isActive"} : r[f] = Num(0)
    /\ {"totalTokens", "cacheCreationTokens", "cacheReadTokens", "messageCount", "isActive"}
           \subseteq DOMAIN r
    /\ r.isActive = Bool(FALSE)

\* No directory was enumerated and no file was read or examined: the only
\* call below the root is the stat of the project path itself.
NoLogFileTouched ==
    /\ \A i \in 1 .. Len(fsLog) :
          /\ fsLog[i].op = "stat"
          /\ fsLog[i].path = dataDir.s \o <<"/">> \o FlattenedName(workspacePath.s)
    /\ allJsonlFiles = <<>>
    /\ contentsRead = <<>>

\* C4: with a workspace set and its flattened project directory absent (or not
\* a directory) under the resolved root, or no root at all, the call never
\* enumerates a directory nor reads a file, and what it returns is the
\* inactive zero report.
C4_UnresolvedProjectReadsNothing ==
    (WorkspaceIsSet /\ ProjectDirUnresolved) =>
        /\ NoLogFileTouched
        /\ sessPc \in {"resolving", "done"}
        /\ sessPc = "done" => InactiveZero(sessReport)

\* The root exists, the project path below it does not; the call has returned.
C4_Witness ==
    /\ WorkspaceIsSet
    /\ rootPc = "found"
    /\ Stat(WorkspaceProjectDir) = "ENOENT"
    /\ sessPc = "done"
    /\ InactiveZero(sessReport)
    /\ Len(fsLog) = 1

\* A line that is an assistant-role entry with cache_creation + cache_read > 0.
CacheField(line, field) ==
    LET v == ValueAt(line, <<"message", "usage", field>>)
    IN  IF v.t = "number" THEN v.n ELSE 0

IsCacheMatch(line) ==
    /\ line.t = "object"
    /\ ValueAt(line, <<"type">>) = Str("assistant")
    /\ ValueAt(line, <<"message", "usage">>).t = "object"
    /\ CacheField(line, "cache_creation_input_tokens")
         + CacheField(line, "cache_read_input_tokens") > 0

\* The files read that hold a matching line, by position in reading order.
FilesWithMatch ==
    { k \in 1 .. Len(contentsRead) :
        /\ contentsRead[k].ok
        /\ \E j \in 1 .. Len(contentsRead[k].lines) : IsCacheMatch(contentsRead[k].lines[j]) }

\* cache_read of the last matching line of file k.
MatchedCacheRead(k) ==
    LET lines == contentsRead[k].lines
        last == CHOOSE j \in 1 .. Len(lines) :
                    /\ IsCacheMatch(lines[j])
                    /\ \A h \in j + 1 .. Len(lines) : ~IsCacheMatch(lines[h])
    IN  CacheField(lines[last], "cache_read_input_tokens")

MaxMatchedCacheRead ==
    IF FilesWithMatch = {} THEN 0
    ELSE CHOOSE m \in { MatchedCacheRead(k) : k \in FilesWithMatch } :
             \A k \in FilesWithMatch : MatchedCacheRead(k) <= m

\* r.field as JavaScript reads it: undefined when the report has no such field.
ReportField(r, field) == IF field \in DOMAIN r THEN r[field] ELSE Undefined

MaxCountAndActivity(r) ==
    /\ ReportField(r, "totalTokens") = Num(MaxMatchedCacheRead)
    /\ ReportField(r, "activeSessionCount") = Num(Cardinality(FilesWithMatch))
    /\ ReportField(r, "isActive") = Bool(MaxMatchedCacheRead > 0)

\* The data directory was enumerated, so the set of qualifying files is known.
QualifyingSetKnown == \E i \in 1 .. Len(fsLog) : fsLog[i].op = "readdir"

\* C5 as stated: for any set of qualifying session files (the empty set
\* included) the report gives totalTokens = the maximum cache_read over the
\* per-file matched entries, activeSessionCount = the number of files that
\* contributed a match, and isActive = (that maximum > 0).
C5_AsStated ==
    (sessPc = "done" /\ QualifyingSetKnown) => MaxCountAndActivity(sessReport)

\* C5, whenever at least one file qualifies: the same three equalities.
C5_HoldsWhenAFileQualifies ==
    (sessPc = "done" /\ recentFiles # <<>>) => MaxCountAndActivity(sessReport)

\* Two qualifying files whose last assistant entries carry cache_read 500 and
\* 1200: totalTokens 1200, activeSessionCount 2, active.
C5_TwoFiles ==
    /\ sessPc = "done"
    /\ Len(contentsRead) = 2
    /\ FilesWithMatch = {1, 2}
    /\ {MatchedCacheRead(1), MatchedCacheRead(2)} = {500, 1200}
    /\ sessReport.totalTokens = Num(1200)
    /\ sessReport.activeSessionCount = Num(2)
    /\ sessReport.isActive = Bool(TRUE)

\* A resolved data directory without one qualifying file: the report has no
\* activeSessionCount.
C5_NoQualifyingFile ==
    /\ sessPc = "done"
    /\ QualifyingSetKnown
    /\ recentFiles = <<>>
    /\ "activeSessionCount" \notin DOMAIN sessReport


\* The paths of the calls `op` in fsLog, in order.
PathsOf(op) ==
    LET made == SelectSeq(fsLog, LAMBDA c : c.op = op)
    IN  [i \in 1 .. Len(made) |-> made[i].path]

\* What was returned is a report and not a thrown error.
IsSessionReport(r) ==
    {"totalTokens", "cacheCreationTokens", "cacheReadTokens", "messageCount", "isActive"}
        \subseteq DOMAIN r

\* C12: the call never ends in a rejection.  A stat failure skips only its
\* file (every file of mainSessionFiles is still examined), a read failure
\* skips only its file (every file of recentFiles is still read, in order),
\* an unparsable line skips only that line: the report is the maximum and
\* the count over the files that were read; every other way out is the
\* inactive zero report.
C12_FailuresSkipOnlyTheirUnit ==
    /\ sessReport # TypeError
    /\ sessPc \in {"read", "done"} =>
          /\ PathsOf("readdir") = <<>> \/ PathsOf("readdir") = <<sessDataDir.s>>
          /\ PathsOf("readdir") # <<>> =>
                SubSeq(PathsOf("stat"), Len(PathsOf("stat")) - Len(mainSessionFiles) + 1,
                       Len(PathsOf("stat"))) = mainSessionFiles
    /\ sessPc = "done" =>
          /\ IsSessionReport(sessReport)
          /\ IF recentFiles # <<>>
             THEN /\ PathsOf("readFile") = [k \in 1 .. Len(recentFiles) |-> recentFiles[k].path]
                  /\ Len(contentsRead) = Len(recentFiles)
                  /\ MaxCountAndActivity(sessReport)
             ELSE InactiveZero(sessReport)

\* The first of two recent files could not be read, the torn last line and
\* the `null` line of the second do not parse: the entry before them counts.
C12_Witness ==
    /\ sessPc = "done"
    /\ Len(recentFiles) = 2
    /\ contentsRead[1] = ReadError
    /\ contentsRead[2].ok
    /\ Len(contentsRead[2].lines) = 2
    /\ contentsRead[2].lines[2] \in {Unparsable, JNull}
    /\ sessReport.totalTokens = Num(1200)
    /\ sessReport.activeSessionCount = Num(1)

\* C13 as stated: every report returned carries totalTokens,
\* cacheCreationTokens, cacheReadTokens, messageCount, isActive and
\* activeSessionCount, the last being 0 when nothing is active.
C13_AsStated ==
    sessPc = "done" =>
        /\ {"totalTokens", "cacheCreationTokens", "cacheReadTokens", "messageCount",
            "isActive", "activeSessionCount"} \subseteq DOMAIN sessReport
        /\ FilesWithMatch = {} => sessReport.activeSessionCount = Num(0)

\* The zero reports of the three early returns have no activeSessionCount.
C13_ZeroReportLacksField ==
    /\ sessPc = "done"
    /\ rootPc = "notfound"
    /\ InactiveZero(sessReport)
    /\ "activeSessionCount" \notin DOMAIN sessReport


\* The last line of file k that matches (file k holds one).
LastMatchOf(k) ==
    LET lines == contentsRead[k].lines
    IN  lines[CHOOSE j \in 1 .. Len(lines) :
                 /\ IsCacheMatch(lines[j])
                 /\ \A h \in j + 1 .. Len(lines) : ~IsCacheMatch(lines[h])]

\* The lines of the files that hold a match, counted.
RECURSIVE MatchedFilesLineCount(_)
MatchedFilesLineCount(k) ==
    IF k = 0 THEN 0
    ELSE (IF k \in FilesWithMatch THEN Len(contentsRead[k].lines) ELSE 0)
         + MatchedFilesLineCount(k - 1)

\* The highest of max and the cache_read of the last matches of files 1 .. k.
RECURSIVE HighestOfLastMatches(_)
HighestOfLastMatches(k) ==
    IF k = 0 THEN 0
    ELSE LET before == HighestOfLastMatches(k - 1)
             here == IF k \in FilesWithMatch
                     THEN CacheField(LastMatchOf(k), "cache_read_input_tokens")
                     ELSE 0
         IN  IF here > before THEN here ELSE before

\* C16: while the files are read and after, the accumulators are those of one
\* match per file, the last line of the file that is an assistant entry with
\* cache_creation + cache_read > 0: earlier matching lines, lines that do not
\* parse and lines that do not match contribute nothing, and
\* activeSessionCount is the number of files with a match, at most the
\* number of qualifying files.
C16_LastMatchOfEachFile ==
    (sessPc = "read" \/ (sessPc = "done" /\ recentFiles # <<>>)) =>
        /\ Len(contentsRead) <= Len(recentFiles)
        /\ tally.activeSessionCount = Num(Cardinality(FilesWithMatch))
        /\ Cardinality(FilesWithMatch) <= Len(recentFiles)
        /\ tally.highestCacheRead = Num(HighestOfLastMatches(Len(contentsRead)))
        /\ tally.highestSessionTokens = tally.highestCacheRead
        /\ tally.totalMessageCount = Num(MatchedFilesLineCount(Len(contentsRead)))
        /\ sessPc = "done" =>
              /\ sessReport.totalTokens = tally.highestCacheRead
              /\ sessReport.activeSessionCount = tally.activeSessionCount

\* One file: a match of 1200, then a match of 500, then a torn line.  The
\* report shows 500.
C16_Witness ==
    /\ sessPc = "done"
    /\ contentsRead = << Content(<< Entry("assistant", CacheUsage(Num(100), Num(1200))),
                                    Entry("assistant", CacheUsage(Undefined, Num(500))),
                                    Unparsable >>) >>
    /\ sessReport.totalTokens = Num(500)
    /\ sessReport.activeSessionCount = Num(1)
    /\ sessReport.messageCount = Num(3)

\* The files with a match whose last match has the highest cache_read.
FilesAtMaximum ==
    { k \in FilesWithMatch :
        CacheField(LastMatchOf(k), "cache_read_input_tokens") = MaxMatchedCacheRead }

\* C19: every report has totalTokens = cacheReadTokens and isActive exactly
\* when totalTokens > 0.  The files are read newest first; when some match has
\* cache_read > 0, cacheCreationTokens and cacheReadTokens are both those of
\* the last match of the first file read whose cache_read is the highest; a
\* match with cache_read = 0 is counted in activeSessionCount and
\* messageCount and leaves the report inactive.
C19_OneEntryGivesBothCacheFields ==
    sessPc = "done" =>
        /\ sessReport.totalTokens = sessReport.cacheReadTokens
        /\ sessReport.isActive = Bool(sessReport.totalTokens.n > 0)
        /\ recentFiles # <<>> =>
              /\ \A k \in 1 .. Len(recentFiles) - 1 :
                    recentFiles[k].modified >= recentFiles[k + 1].modified
              /\ sessReport.activeSessionCount = Num(Cardinality(FilesWithMatch))
              /\ sessReport.messageCount = Num(MatchedFilesLineCount(Len(contentsRead)))
              /\ IF MaxMatchedCacheRead > 0
                 THEN LET first == CHOOSE k \in FilesAtMaximum :
                                       \A h \in FilesAtMaximum : k <= h
                          entry == LastMatchOf(first)
                      IN  /\ sessReport.cacheReadTokens =
                                Num(CacheField(entry, "cache_read_input_tokens"))
                          /\ sessReport.cacheCreationTokens =
                                Num(CacheField(entry, "cache_creation_input_tokens"))
                 ELSE /\ sessReport.cacheReadTokens = Num(0)
                      /\ sessReport.cacheCreationTokens = Num(0)
                      /\ sessReport.isActive = Bool(FALSE)

\* Two files whose last matches both read 1200 from the cache, the newer one
\* with cache_creation 100, the older with 200: the report carries 100.  A
\* match with cache_read 0 in neither; see C19_CacheReadZero.
C19_Witness ==
    /\ sessPc = "done"
    /\ Len(recentFiles) = 2
    /\ recentFiles[1].modified > recentFiles[2].modified
    /\ contentsRead = << Content(<<Entry("assistant", CacheUsage(Num(100), Num(1200)))>>),
                         Content(<<Entry("assistant", CacheUsage(Num(200), Num(1200)))>>) >>
    /\ sessReport.cacheCreationTokens = Num(100)
    /\ sessReport.cacheReadTokens = Num(1200)

\* One file whose match has cache_creation 300 and cache_read 0: counted, and
\* the report is inactive.
C19_CacheReadZero ==
    /\ sessPc = "done"
    /\ contentsRead = << Content(<<Entry("assistant", CacheUsage(Num(300), Num(0))),
                                   Unparsable>>) >>
    /\ sessReport.activeSessionCount = Num(1)
    /\ sessReport.messageCount = Num(2)
    /\ sessReport.isActive = Bool(FALSE)
    /\ sessReport.totalTokens = Num(0)


\* The name of a file listed below the data directory.
NameBelow(dir, path) == SubSeq(path, Len(dir) + 2, Len(path))

\* A name of the form 8-4-4-4-12 hexadecimal digits followed by ".jsonl".
IsUuidSessionName(name) ==
    /\ Len(name) = 42
    /\ \A i \in 1 .. 36 :
          IF i \in {9, 14, 19, 24}
          THEN name[i] = "-"
          ELSE name[i] \in {"0", "1", "2", "3", "4", "5", "6", "7", "8", "9",
                            "a", "b", "c", "d", "e", "f", "A", "B", "C", "D", "E", "F"}
    /\ SubSeq(name, 37, 42) = <<".", "j", "s", "o", "n", "l">>

HasAgentPrefix(name) ==
    Len(name) >= 6 /\ SubSeq(name, 1, 6) = <<"a", "g", "e", "n", "t", "-">>

\* fs.stat was asked about the path before call i and answered a
\* modification time within the session window.
StatSaidRecent(path, i) ==
    \E j \in 1 .. i - 1 :
        /\ fsLog[j].op = "stat"
        /\ fsLog[j].path = path
        /\ fsLog[j].answer.ok
        /\ fsLog[j].answer.mtimeMs >= now - SESSION_DURATION

\* C17: a file is read only if its name has the UUID session-file form, does
\* not begin with "agent-", and its modification time is >= now minus the
\* session duration; the report is computed from the files read alone, so a
\* file failing a condition affects neither totalTokens nor messageCount nor
\* activeSessionCount.
C17_OnlyRecentSessionFilesAreRead ==
    /\ \A i \in 1 .. Len(fsLog) :
          fsLog[i].op = "readFile" =>
              LET name == NameBelow(sessDataDir.s, fsLog[i].path)
              IN  /\ \E k \in 1 .. Len(allJsonlFiles) : allJsonlFiles[k] = fsLog[i].path
                  /\ IsUuidSessionName(name)
                  /\ ~HasAgentPrefix(name)
                  /\ StatSaidRecent(fsLog[i].path, i)
    /\ Len(contentsRead) = Len(PathsOf("readFile"))
    /\ (sessPc = "done" /\ recentFiles # <<>>) =>
          /\ MaxCountAndActivity(sessReport)
          /\ sessReport.messageCount = Num(MatchedFilesLineCount(Len(contentsRead)))
    /\ (sessPc = "done" /\ recentFiles = <<>>) => InactiveZero(sessReport)

\* An agent file, a UUID-named file one millisecond older than the window and
\* a UUID-named file at the window's start: the last one alone is read.
C17_Witness ==
    /\ sessPc = "done"
    /\ Len(allJsonlFiles) = 3
    /\ \E k \in 1 .. 3 : HasAgentPrefix(NameBelow(sessDataDir.s, allJsonlFiles[k]))
    /\ Len(mainSessionFiles) = 2
    /\ \E i \in 1 .. Len(fsLog) :
          /\ fsLog[i].op = "stat"
          /\ fsLog[i].answer = Stats(now - SESSION_DURATION - 1)
    /\ Len(recentFiles) = 1
    /\ recentFiles[1].modified = now - SESSION_DURATION
    /\ PathsOf("readFile") = <<recentFiles[1].path>>
    /\ sessReport.totalTokens = Num(500)
    /\ sessReport.activeSessionCount = Num(1)


(***************************************************************************)
(* SessionTracker.  The session file holds {sessions, totals}; a tracker   *)
(* keeps the session it started in this.currentSession.  loadData parses   *)
(* the file anew on every call, so the objects of the data it returns are  *)
(* not the object this.currentSession refers to.  A call stops at its two  *)
(* awaits: fs.readFile in loadData and fs.writeFile in saveData.           *)
(***************************************************************************)
DEFAULT_TOKEN_LIMIT == 200000

NumSub(a, b) == Rat(a.n * b.d - b.n * a.d, a.d * b.d)

\* config.get('tokenLimit', DEFAULT_TOKEN_LIMIT)
getTokenLimit ==
    IF tokenLimitSetting = Undefined THEN Num(DEFAULT_TOKEN_LIMIT) ELSE tokenLimitSetting

\* new Date().toISOString(), and its part before the "T"
IsoNow == "2025-01-01T00:00:00.000Z"
IsoToday == "2025-01-01"

\* String(n).padStart(3, '0')
PadStart3(n) ==
    LET digits == ToString(n)
    IN  CASE Len(digits) = 1 -> "00" \o digits
          [] Len(digits) = 2 -> "0" \o digits
          [] OTHER -> digits

\* What the catch of loadData returns.
EmptyData ==
    [sessions |-> <<>>,
     totals |-> [totalSessions |-> Num(0), totalTokensUsed |-> Num(0),
                 lastSessionDate |-> JNull]]

\* loadData, once fs.readFile has answered.
loadData == IF sessionFile = None THEN EmptyData ELSE sessionFile

NewSession(data) ==
    [sessionId |-> "session-" \o IsoToday \o "-" \o PadStart3(Len(data.sessions) + 1),
     startTime |-> Str(IsoNow),
     description |-> Str("Development session"),
     tokenUsage |-> [current |-> Num(0), limit |-> getTokenLimit,
                     remaining |-> getTokenLimit, lastUpdate |-> Str(IsoNow)]]

\* The four assignments of updateTokens to session.tokenUsage.
WithTokens(session, tokensUsed, limit) ==
    [session EXCEPT !.tokenUsage =
        [current |-> tokensUsed, limit |-> limit,
         remaining |-> NumSub(limit, tokensUsed), lastUpdate |-> Str(IsoNow)]]

\* data.sessions.reduce((sum, s) => sum + (s.tokenUsage.current || 0), 0)
RECURSIVE SumCurrent(_)
SumCurrent(sessions) ==
    IF sessions = <<>> THEN Num(0)
    ELSE NumAdd(SumCurrent(Front(sessions)), OrElse(Last(sessions).tokenUsage.current, Num(0)))

NoCall ==
    [pc |-> "idle", op |-> "none", self |-> 0, tokensUsed |-> None, tokenLimit |-> None,
     limit |-> None, content |-> None]

InFlight(c) == calls[c].pc \in {"loading", "saving"}

\* New sessions that exist or are on their way.
SessionsStarted ==
    Len(loadData.sessions)
        + Cardinality({c \in DOMAIN calls : InFlight(c) /\ calls[c].op = "startSession"})

\* new SessionTracker(path) over the same file: the extension starts again,
\* and the calls of the tracker it replaces are forgotten.
NewSessionTracker(k) ==
    /\ \A c \in DOMAIN calls : calls[c].self = k => ~InFlight(c)
    /\ currentSession[k] # JNull
    /\ currentSession' = [currentSession EXCEPT ![k] = JNull]
    /\ calls' = [c \in DOMAIN calls |-> IF calls[c].self = k THEN NoCall ELSE calls[c]]
    /\ UNCHANGED <<tokenLimitSetting, sessionFile>>

\* startSession is called: it awaits loadData.
StartSessionCall(c, k, maxSessions) ==
    /\ ~InFlight(c)
    /\ SessionsStarted < maxSessions
    /\ calls' = [calls EXCEPT ![c] = [NoCall EXCEPT !.pc = "loading",
                                                     !.op = "startSession", !.self = k]]
    /\ UNCHANGED <<tokenLimitSetting, sessionFile, currentSession>>

\* startSession from the answer of loadData to the call of fs.writeFile.
StartSessionLoaded(c) ==
    /\ calls[c].pc = "loading"
    /\ calls[c].op = "startSession"
    /\ LET data == loadData
           session == NewSession(data)
           sessions == Append(data.sessions, session)
           totals == [data.totals EXCEPT !.totalSessions = Num(Len(sessions)),
                                         !.lastSessionDate = session.startTime]
       IN  /\ currentSession' = [currentSession EXCEPT ![calls[c].self] = session]
           /\ calls' = [calls EXCEPT ![c].pc = "saving",
                                     ![c].content = [sessions |-> sessions, totals |-> totals]]
    /\ UNCHANGED <<tokenLimitSetting, sessionFile>>

\* updateTokens(tokensUsed, tokenLimit) is called: it awaits loadData.
UpdateTokensCall(c, k, tokensUsed, tokenLimit) ==
    /\ ~InFlight(c)
    /\ calls' = [calls EXCEPT ![c] = [NoCall EXCEPT !.pc = "loading",
                                                     !.op = "updateTokens", !.self = k,
                                                     !.tokensUsed = tokensUsed,
                                                     !.tokenLimit = tokenLimit,
                                                     !.limit = OrElse(tokenLimit, getTokenLimit)]]
    /\ UNCHANGED <<tokenLimitSetting, sessionFile, currentSession>>

\* updateTokens from the answer of loadData to its return or to the call of
\* fs.writeFile.  The session updated is this.currentSession when there is
\* one, and the last session of the data just loaded otherwise.
UpdateTokensLoaded(c) ==
    /\ calls[c].pc = "loading"
    /\ calls[c].op = "updateTokens"
    /\ LET data == loadData
           k == calls[c].self
           n == Len(data.sessions)
           own == currentSession[k]
           sessions ==
               IF own = JNull /\ n > 0
               THEN [data.sessions EXCEPT ![n] = WithTokens(@, calls[c].tokensUsed, calls[c].limit)]
               ELSE data.sessions
           totals == [data.totals EXCEPT !.totalTokensUsed = SumCurrent(sessions)]
       IN  IF own = JNull /\ n = 0
           THEN /\ calls' = [calls EXCEPT ![c].pc = "returned"]
                /\ UNCHANGED currentSession
           ELSE /\ currentSession' =
                       IF own = JNull THEN currentSession
                       ELSE [currentSession EXCEPT
                                ![k] = WithTokens(own, calls[c].tokensUsed, calls[c].limit)]
                /\ calls' = [calls EXCEPT ![c].pc = "saving",
                                          ![c].content = [sessions |-> sessions, totals |-> totals]]
    /\ UNCHANGED <<tokenLimitSetting, sessionFile>>

\* saveData: fs.writeFile has replaced the file, the call returns.
SaveDataDone(c) ==
    /\ calls[c].pc = "saving"
    /\ sessionFile' = calls[c].content
    /\ calls' = [calls EXCEPT ![c].pc = "returned"]
    /\ UNCHANGED <<tokenLimitSetting, currentSession>>

\* SpecTracker: one tracker over a file that does not exist yet; a call begins
\* when the one before it has returned.
MaxStoredSessions == 2
TokenCounts == {Num(0), Num(30), Num(70)}
TokenLimits == {JNull, Num(0), Num(100)}

InitTrackers(trackers, callIds) ==
    /\ tokenLimitSetting \in {Undefined, Num(50)}
    /\ sessionFile = None
    /\ currentSession = [k \in trackers |-> JNull]
    /\ calls = [c \in callIds |-> NoCall]
    /\ SchemaIdle
    /\ RootIdle
    /\ LoadIdle
    /\ SessIdle

InitTracker == InitTrackers({1}, {1})

NextTracker ==
    \/ (NewSessionTracker(1) /\ UNCHANGED <<schemaVars, rootVars, loadVars, sessVars>>)
    \/ (StartSessionCall(1, 1, MaxStoredSessions)
            /\ UNCHANGED <<schemaVars, rootVars, loadVars, sessVars>>)
    \/ (StartSessionLoaded(1) /\ UNCHANGED <<schemaVars, rootVars, loadVars, sessVars>>)
    \/ (\E tokensUsed \in TokenCounts, tokenLimit \in TokenLimits :
            UpdateTokensCall(1, 1, tokensUsed, tokenLimit)
                /\ UNCHANGED <<schemaVars, rootVars, loadVars, sessVars>>)
    \/ (UpdateTokensLoaded(1) /\ UNCHANGED <<schemaVars, rootVars, loadVars, sessVars>>)
    \/ (SaveDataDone(1) /\ UNCHANGED <<schemaVars, rootVars, loadVars, sessVars>>)

SpecTracker == InitTracker /\ [][NextTracker]_vars

\* SpecRace: two calls of startSession may be running at once, on the same
\* tracker or on two trackers over the same file.  Each stops at its two
\* awaits, where the other may run.  fs.writeFile replaces the file whole.
MaxRacingSessions == 3
RaceTrackers == {1, 2}
RaceCalls == {1, 2}

InitRace == InitTrackers(RaceTrackers, RaceCalls)

NextRace ==
    \/ (\E c \in RaceCalls, k \in RaceTrackers :
            StartSessionCall(c, k, MaxRacingSessions)
                /\ UNCHANGED <<schemaVars, rootVars, loadVars, sessVars>>)
    \/ (\E c \in RaceCalls :
            StartSessionLoaded(c) /\ UNCHANGED <<schemaVars, rootVars, loadVars, sessVars>>)
    \/ (\E c \in RaceCalls :
            SaveDataDone(c) /\ UNCHANGED <<schemaVars, rootVars, loadVars, sessVars>>)

SpecRace == InitRace /\ [][NextRace]_vars

(***************************************************************************)
(* SessionTracker: the claims.                                             *)
(***************************************************************************)
Returned(c, op) == calls[c].pc = "returned" /\ calls[c].op = op

NoCallInFlight == \A c \in DOMAIN calls : ~InFlight(c)

StoredSessions == IF sessionFile = None THEN <<>> ELSE sessionFile.sessions

\* The stored records of the session tracker k started.
StoredRecordsOf(k) ==
    { i \in 1 .. Len(StoredSessions) :
        StoredSessions[i].sessionId = currentSession[k].sessionId }

RECURSIVE SumOfStoredCurrent(_)
SumOfStoredCurrent(i) ==
    IF i = 0 THEN 0
    ELSE SumOfStoredCurrent(i - 1) + StoredSessions[i].tokenUsage.current.n

TotalsMatchStore ==
    sessionFile # None =>
        /\ sessionFile.totals.totalSessions = Num(Len(StoredSessions))
        /\ sessionFile.totals.totalTokensUsed = Num(SumOfStoredCurrent(Len(StoredSessions)))

\* C20 as stated: when updateTokens(t, limit) has returned on a tracker whose
\* startSession had completed, the stored record of the tracker's session
\* has tokenUsage.current = t and remaining = limit - t (limit being the
\* argument, or the configured limit when none is given), and the stored
\* totals agree with the stored sessions; totals.totalSessions is the number
\* of stored sessions whenever no call is running.
C20_AsStated ==
    /\ \A c \in DOMAIN calls :
          (Returned(c, "updateTokens") /\ currentSession[calls[c].self] # JNull) =>
              /\ StoredRecordsOf(calls[c].self) # {}
              /\ \A i \in StoredRecordsOf(calls[c].self) :
                    /\ StoredSessions[i].tokenUsage.current = calls[c].tokensUsed
                    /\ StoredSessions[i].tokenUsage.remaining
                          = Num(calls[c].limit.n - calls[c].tokensUsed.n)
              /\ TotalsMatchStore
    /\ NoCallInFlight => TotalsMatchStore

\* What does hold: the stored totals always agree with the stored sessions.
C20_TotalsAgreeWithStore == NoCallInFlight => TotalsMatchStore

\* What does hold: a tracker without a session of its own updates the last
\* stored session, and that update is stored.
C20_UpdateOfLastStoredIsSaved ==
    \A c \in DOMAIN calls :
        (Returned(c, "updateTokens") /\ currentSession[calls[c].self] = JNull
            /\ StoredSessions # <<>>) =>
                Last(StoredSessions).tokenUsage.current = calls[c].tokensUsed

\* startSession, then updateTokens(30, 100): the tracker's own copy of the
\* session has current = 30, the stored record still has current = 0.
C20_UpdateNotStored ==
    /\ Returned(1, "updateTokens")
    /\ calls[1].tokensUsed = Num(30)
    /\ calls[1].tokenLimit = Num(100)
    /\ currentSession[1] # JNull
    /\ currentSession[1].tokenUsage.current = Num(30)
    /\ Len(StoredSessions) = 1
    /\ StoredSessions[1].sessionId = currentSession[1].sessionId
    /\ StoredSessions[1].tokenUsage.current = Num(0)
    /\ sessionFile.totals.totalTokensUsed = Num(0)

C20_FallbackReached ==
    /\ Returned(1, "updateTokens")
    /\ currentSession[1] = JNull
    /\ StoredSessions # <<>>
    /\ Last(StoredSessions).tokenUsage.current = Num(70)

\* The session a returned call of startSession created: the one it pushed
\* last onto the data it saved.
CreatedBy(c) == Last(calls[c].content.sessions)

StoredWithId(id) == { i \in 1 .. Len(StoredSessions) : StoredSessions[i].sessionId = id }

BothStartsReturned == Returned(1, "startSession") /\ Returned(2, "startSession")

\* C21 as stated: when two calls of startSession have both completed,
\* however they interleaved at their awaits, the sessions they created have
\* distinct sessionIds, each is stored exactly once, no two stored sessions
\* share a sessionId, and totals.totalSessions counts them all.
C21_AsStated ==
    BothStartsReturned =>
        /\ CreatedBy(1).sessionId # CreatedBy(2).sessionId
        /\ Cardinality(StoredWithId(CreatedBy(1).sessionId)) = 1
        /\ Cardinality(StoredWithId(CreatedBy(2).sessionId)) = 1
        /\ \A i, j \in 1 .. Len(StoredSessions) :
              i # j => StoredSessions[i].sessionId # StoredSessions[j].sessionId
        /\ sessionFile.totals.totalSessions.n >= 2

\* What does hold: the stored count is the number of stored sessions.
C21_CountIsNumberStored ==
    (NoCallInFlight /\ sessionFile # None) =>
        sessionFile.totals.totalSessions = Num(Len(StoredSessions))

\* Both calls loaded the missing file before either saved: both created
\* "session-2025-01-01-001", and the file holds one session, counted once.
C21_SessionLost ==
    /\ BothStartsReturned
    /\ calls[1].self # calls[2].self
    /\ CreatedBy(1).sessionId = "session-2025-01-01-001"
    /\ CreatedBy(2).sessionId = "session-2025-01-01-001"
    /\ Len(StoredSessions) = 1
    /\ sessionFile.totals.totalSessions = Num(1)

\* The same on one tracker.
C21_SessionLostOnOneTracker ==
    /\ BothStartsReturned
    /\ calls[1].self = calls[2].self
    /\ CreatedBy(1).sessionId = CreatedBy(2).sessionId
    /\ Len(StoredSessions) = 1

\* Calls that do not overlap: the second loaded what the first had saved.
C21_OneAfterTheOther ==
    /\ BothStartsReturned
    /\ Len(StoredSessions) = 2
    /\ CreatedBy(1).sessionId = "session-2025-01-01-001"
    /\ CreatedBy(2).sessionId = "session-2025-01-01-002"

====
